---- MODULE Spec2Model ----
(***************************************************************************)
(* Model of the agent runtime of swarm-together (src-tauri/src/runtime):   *)
(* the AgentRegistry, the MessageBus with its per-agent Mailbox (a max-    *)
(* heap on message priority), and the Orchestrator scheduling loop with    *)
(* its loop guards and retry wrapper.                                      *)
(***************************************************************************)
EXTENDS Integers, Sequences, FiniteSets, TLC

(***************************************************************************)
(* Bounds of the model.                                                    *)
(***************************************************************************)
MaxAgents == 2
MaxQueue == 3
MaxSends == 2
MaxIter == 1
MaxMsgs == 1
MaxRetries == 2
\* token counts are u32 in the program; here they wrap at 2^TokenBits
TokenBits == 6
MaxEntries == 3
MaxMemOps == 3
MaxBoard == 2
MaxTime == 2
MaxBoardOps == 4
MaxCalls == 3
MaxLines == 3

(***************************************************************************)
(* Program constants.                                                      *)
(***************************************************************************)
Low == 0
Normal == 1
High == 2
Critical == 3
WorkMs == 10
DefaultTimeoutMs == 300000
DefaultMaxRetries == 3
DefaultMaxIterations == 100
DefaultMaxMessages == 50
DefaultMaxTimeMs == 600000

AgentIds == 1..MaxAgents
\* a sender that is no registered agent (tests use a fresh uuid as `from`)
External == 0
Priorities == {Low, Normal, High, Critical}

\* AgentMessage, reduced to the fields the runtime reads (types.rs:65-73)
Messages == [from : AgentIds \cup {External}, to : AgentIds \cup {External},
             priority : Priorities]
NoMsg == [from |-> External, to |-> External, priority |-> -1]
NoAgent == -1

(***************************************************************************)
(* Mailbox: BinaryHeap<PriorityMessage>, ordered by priority only.         *)
(* A heap is a sequence h with h[i \div 2] >= h[i] (1-based indices).       *)
(***************************************************************************)
\* a comparison the wrong way round (a min-heap)
PrioGE(a, b) == a.priority >= b.priority

\* PriorityMessage::cmp: compares message.priority and nothing else
PrioLE(a, b) == a.priority <= b.priority

Swap(h, i, j) == [h EXCEPT ![i] = h[j], ![j] = h[i]]

RECURSIVE SiftUp(_, _)
SiftUp(h, pos) ==
    IF pos = 1 THEN h
    ELSE LET parent == pos \div 2 IN
         IF PrioLE(h[pos], h[parent]) THEN h
         ELSE SiftUp(Swap(h, pos, parent), parent)

\* BinaryHeap::pop moves the hole to the bottom along the greater child,
\* then sifts the displaced element up again.
RECURSIVE SiftDownToBottom(_, _)
SiftDownToBottom(h, pos) ==
    LET n == Len(h)
        child == 2 * pos
    IN  IF child + 1 <= n
        THEN LET c == IF PrioLE(h[child], h[child + 1]) THEN child + 1 ELSE child
             IN  SiftDownToBottom(Swap(h, pos, c), c)
        ELSE IF child = n
        THEN SiftUp(Swap(h, pos, child), child)
        ELSE SiftUp(h, pos)

\* Mailbox::push
HeapPush(h, m) == SiftUp(Append(h, m), Len(h) + 1)

\* Mailbox::pop: the message returned
HeapTop(h) == IF Len(h) = 0 THEN NoMsg ELSE h[1]

\* Mailbox::pop: the heap left behind
HeapRest(h) ==
    IF Len(h) <= 1 THEN <<>>
    ELSE LET last == h[Len(h)]
             body == SubSeq(h, 1, Len(h) - 1)
         IN  SiftDownToBottom([body EXCEPT ![1] = last], 1)

\* number of occurrences of message m in heap h
Count(h, m) == Cardinality({i \in DOMAIN h : h[i] = m})

RECURSIVE SumLen(_, _)
SumLen(mbs, S) ==
    IF S = {} THEN 0
    ELSE LET a == CHOOSE x \in S : TRUE
         IN  Len(mbs[a]) + SumLen(mbs, S \ {a})

\* sum of the lengths of all mailboxes of the bus at this instant
TotalQueued(mbs) == SumLen(mbs, DOMAIN mbs)

(***************************************************************************)
(* State.                                                                  *)
(***************************************************************************)
VARIABLES
    agents,          \* AgentRegistry.agents: id -> status
    configs,         \* AgentRegistry.configs: id -> AgentConfig
    nextId,          \* the next identifier uuid::new_v4() hands out
    mailboxes,       \* MessageBus.mailboxes: id -> heap of messages
    total_sent,      \* MessageBus.total_sent
    total_received,  \* MessageBus.total_received
    readers,         \* read guards on MessageBus.mailboxes held across awaits
    loop_guard,      \* Orchestrator.loop_guard
    running,         \* Orchestrator.running
    metrics,         \* Orchestrator.metrics
    st,              \* per start() call: its position and locals
    qd,              \* per queue_depth() call: its position and locals
    bc,              \* the broadcast() call in progress
    cmd,             \* the register_agent/unregister_agent command in progress
    ret,             \* what the last completed operation returned
    budget,          \* calls the environment may still make
    qdSums,          \* history: sums of mailbox lengths seen during queue_depth()
    hist,            \* history of the run: what held when start() was called
    rb,              \* one agent's RingBuffer: entries, stats, build profile
    add,             \* the MemoryManager::add_to_agent call in progress
    bb,              \* the Blackboard: entries, max_entries, stats
    now,             \* SystemTime::now()
    bbh,             \* history: the last blackboard call and what it found
    conn,            \* the three connectors: metrics and calls in progress
    rl               \* the RateLimiter: config, clients, the last request

vars == <<agents, configs, nextId, mailboxes, total_sent, total_received,
          readers, loop_guard, running, metrics, st, qd, bc, cmd, ret,
          budget, qdSums, hist, rb, add, bb, now, bbh, conn, rl>>

\* the memory subsystem
ringVars == <<rb, add>>
boardVars == <<bb, now, bbh>>
memVars == <<ringVars, boardVars>>
apiVars == <<rl>>
\* the runtime: registry, bus, orchestrator and the calls in progress on them
runtimeVars == <<agents, configs, nextId, mailboxes, total_sent, total_received,
                 readers, loop_guard, running, metrics, st, qd, bc, cmd,
                 qdSums, hist>>
registryVars == <<agents, configs, nextId>>
busVars == <<mailboxes, total_sent, total_received, readers>>
orchVars == <<loop_guard, running, metrics, st>>

Starters == {1}
\* the start() calls that can exist on one Orchestrator: start_orchestrator
\* clones the Arc and calls start() outside the lock, so a second command can
\* be inside start() beside the first
Tasks == Starters \cup {2}
\* the external caller of queue_depth() (the get_queue_depth command)
Observer == 0
Callers == Tasks \cup {Observer}

Ret(op, a, m, n, ok) == [op |-> op, agent |-> a, msg |-> m, n |-> n, ok |-> ok]
NoRet == Ret("none", NoAgent, NoMsg, 0, TRUE)

\* f with key k removed
\* a removal that removes nothing
WithoutNone(f, k) == f
Without(f, k) == [x \in DOMAIN f \ {k} |-> f[x]]
\* f with key k set to v (HashMap::insert)
With(f, k, v) == [x \in DOMAIN f \cup {k} |-> IF x = k THEN v ELSE f[x]]
EmptyMap == [x \in {} |-> 0]

\* history: the sums of mailbox lengths that existed while the observer's
\* queue_depth() call was in progress
NoteSums ==
    qdSums' = IF qd'[Observer].pc = "scan"
              THEN (IF qd[Observer].pc = "scan" THEN qdSums ELSE {})
                   \cup {TotalQueued(mailboxes')}
              ELSE qdSums

(***************************************************************************)
(* Mailbox operations called directly on one mailbox.                      *)
(***************************************************************************)
MbPush(a, m) ==
    /\ a \in DOMAIN mailboxes
    /\ Len(mailboxes[a]) < MaxQueue
    /\ mailboxes' = [mailboxes EXCEPT ![a] = HeapPush(@, m)]
    /\ ret' = Ret("push", a, m, 0, TRUE)
    /\ UNCHANGED <<registryVars, total_sent, total_received, readers, orchVars,
                   qd, bc, cmd, budget, hist>>
    /\ UNCHANGED <<memVars, conn, apiVars>>
    /\ NoteSums

MbPop(a) ==
    /\ a \in DOMAIN mailboxes
    /\ mailboxes' = [mailboxes EXCEPT ![a] = HeapRest(@)]
    /\ ret' = Ret("pop", a, HeapTop(mailboxes[a]), 0, Len(mailboxes[a]) > 0)
    /\ UNCHANGED <<registryVars, total_sent, total_received, readers, orchVars,
                   qd, bc, cmd, budget, hist>>
    /\ UNCHANGED <<memVars, conn, apiVars>>
    /\ NoteSums

MbPeek(a) ==
    /\ a \in DOMAIN mailboxes
    /\ ret' = Ret("peek", a, HeapTop(mailboxes[a]), 0, Len(mailboxes[a]) > 0)
    /\ UNCHANGED <<registryVars, busVars, orchVars, qd, bc, cmd, budget, hist>>
    /\ UNCHANGED <<memVars, conn, apiVars>>
    /\ NoteSums

MbClear(a) ==
    /\ a \in DOMAIN mailboxes
    /\ mailboxes' = [mailboxes EXCEPT ![a] = <<>>]
    /\ ret' = Ret("clear", a, NoMsg, 0, TRUE)
    /\ UNCHANGED <<registryVars, total_sent, total_received, readers, orchVars,
                   qd, bc, cmd, budget, hist>>
    /\ UNCHANGED <<memVars, conn, apiVars>>
    /\ NoteSums

(***************************************************************************)
(* MessageBus.                                                             *)
(***************************************************************************)
\* some start() call is between its first and its last step
Running == \E s \in Tasks : st[s].pc \notin {"idle", "done"}

\* some start() call has begun
Started == \E s \in Tasks : st[s].pc # "idle"

\* history: a send or broadcast pushed a message after start() was called
NoteSend ==
    IF Started
    THEN [hist EXCEPT !.sentSinceStart = TRUE, !.queued = [a \in AgentIds |-> 0]]
    ELSE hist

\* history: an unregister_agent command ran after start() was called
NoteUnregister ==
    IF Started THEN [hist EXCEPT !.unreg = TRUE] ELSE hist

NoBroadcast == [active |-> FALSE, msg |-> NoMsg, rem |-> {}, sent |-> 0,
                done |-> {}, atStart |-> {}]

\* MessageBus::create_mailbox: needs the write lock; insert replaces
CreateMailbox(a) ==
    /\ budget.creates > 0
    /\ readers = 0
    /\ mailboxes' = With(mailboxes, a, <<>>)
    /\ ret' = Ret("create_mailbox", a, NoMsg, 0, TRUE)
    /\ budget' = [budget EXCEPT !.creates = @ - 1]
    /\ UNCHANGED <<registryVars, total_sent, total_received, readers, orchVars,
                   qd, bc, cmd, hist>>
    /\ UNCHANGED <<memVars, conn, apiVars>>
    /\ NoteSums

\* MessageBus::remove_mailbox: needs the write lock
RemoveMailbox(a) ==
    /\ budget.removes > 0
    /\ readers = 0
    /\ mailboxes' = Without(mailboxes, a)
    /\ ret' = Ret("remove_mailbox", a, NoMsg, 0, a \in DOMAIN mailboxes)
    /\ budget' = [budget EXCEPT !.removes = @ - 1]
    /\ UNCHANGED <<registryVars, total_sent, total_received, readers, orchVars,
                   qd, bc, cmd, hist>>
    /\ UNCHANGED <<memVars, conn, apiVars>>
    /\ NoteSums

\* a send that counts the message before it has found the mailbox
SendCountsFirst(m) ==
    /\ budget.sends > 0
    /\ budget' = [budget EXCEPT !.sends = @ - 1]
    /\ total_sent' = total_sent + 1
    /\ IF m.to \in DOMAIN mailboxes
       THEN /\ mailboxes' = [mailboxes EXCEPT ![m.to] = HeapPush(@, m)]
            /\ ret' = Ret("send", m.to, m, 0, TRUE)
            /\ hist' = NoteSend
       ELSE /\ ret' = Ret("send", m.to, m, 0, FALSE)
            /\ UNCHANGED <<mailboxes, hist>>
    /\ UNCHANGED <<registryVars, total_received, readers, orchVars, qd, bc, cmd>>
    /\ UNCHANGED <<memVars, conn, apiVars>>
    /\ NoteSums

\* MessageBus::send
Send(m) ==
    /\ budget.sends > 0
    /\ budget' = [budget EXCEPT !.sends = @ - 1]
    /\ IF m.to \in DOMAIN mailboxes
       THEN /\ mailboxes' = [mailboxes EXCEPT ![m.to] = HeapPush(@, m)]
            /\ total_sent' = total_sent + 1
            /\ ret' = Ret("send", m.to, m, 0, TRUE)
            /\ hist' = NoteSend
       ELSE /\ ret' = Ret("send", m.to, m, 0, FALSE)
            /\ UNCHANGED <<mailboxes, total_sent, hist>>
    /\ UNCHANGED <<registryVars, total_received, readers, orchVars, qd, bc, cmd>>
    /\ UNCHANGED <<memVars, conn, apiVars>>
    /\ NoteSums

\* MessageBus::broadcast: takes the read lock and snapshots nothing: it walks
\* the map while holding the guard
BroadcastBegin(m) ==
    /\ budget.sends > 0
    /\ ~bc.active
    /\ budget' = [budget EXCEPT !.sends = @ - 1]
    /\ bc' = [active |-> TRUE, msg |-> m, rem |-> DOMAIN mailboxes,
              sent |-> 0, done |-> {}, atStart |-> DOMAIN mailboxes]
    /\ readers' = readers + 1
    /\ ret' = NoRet
    /\ hist' = NoteSend
    /\ UNCHANGED <<registryVars, mailboxes, total_sent, total_received,
                   orchVars, qd, cmd>>
    /\ UNCHANGED <<memVars, conn, apiVars>>
    /\ NoteSums

\* a broadcast that does not leave out the sender
Everyone(a, m) == TRUE

\* if *agent_id != message.from
Recipient(a, m) == a # m.from

\* one turn of the loop over mailboxes.iter()
BroadcastStep ==
    /\ bc.active
    /\ \E a \in bc.rem :
        IF Recipient(a, bc.msg)
        THEN /\ mailboxes' = [mailboxes EXCEPT
                                ![a] = HeapPush(@, [bc.msg EXCEPT !.to = a])]
             /\ bc' = [bc EXCEPT !.rem = @ \ {a}, !.sent = @ + 1,
                                 !.done = @ \cup {a}]
        ELSE /\ bc' = [bc EXCEPT !.rem = @ \ {a}]
             /\ UNCHANGED mailboxes
    /\ ret' = NoRet
    /\ hist' = NoteSend
    /\ UNCHANGED <<registryVars, total_sent, total_received, readers, orchVars,
                   qd, cmd, budget>>
    /\ UNCHANGED <<memVars, conn, apiVars>>
    /\ NoteSums

\* after the loop: total_sent += sent, the guard is dropped, sent is returned
BroadcastEnd ==
    /\ bc.active
    /\ bc.rem = {}
    /\ total_sent' = total_sent + bc.sent
    /\ readers' = readers - 1
    /\ bc' = NoBroadcast
    /\ ret' = Ret("broadcast", bc.msg.from, bc.msg, bc.sent, TRUE)
    /\ UNCHANGED <<registryVars, mailboxes, total_received, orchVars, qd, cmd,
                   budget, hist>>
    /\ UNCHANGED <<memVars, conn, apiVars>>
    /\ NoteSums

\* MessageBus::mark_received
MarkReceived == total_received' = total_received + 1

\* MessageBus::queue_depth, first step: take the read lock
QdBegin(c) ==
    /\ qd[c].pc = "idle"
    /\ qd' = [qd EXCEPT ![c] = [pc |-> "scan", rem |-> DOMAIN mailboxes, total |-> 0]]
    /\ readers' = readers + 1

\* a length that counts one message too many
MailboxLenPlusOne(h) == Len(h) + 1
\* Mailbox::len
MailboxLen(h) == Len(h)

\* queue_depth, one turn of the loop: total += mailbox.len()
QdStep(c) ==
    /\ qd[c].pc = "scan"
    /\ \E a \in qd[c].rem :
        qd' = [qd EXCEPT ![c].rem = @ \ {a},
                         ![c].total = @ + MailboxLen(mailboxes[a])]
    /\ ret' = NoRet
    /\ UNCHANGED <<registryVars, busVars, orchVars, bc, cmd, budget, hist>>
    /\ UNCHANGED <<memVars, conn, apiVars>>
    /\ NoteSums

\* queue_depth, last step: drop the guard and return total
QdEnd(c) ==
    /\ qd[c].pc = "scan"
    /\ qd[c].rem = {}
    /\ qd' = [qd EXCEPT ![c].pc = "idle"]
    /\ readers' = readers - 1

\* the get_queue_depth command
ObserveBegin ==
    /\ budget.observes > 0
    /\ budget' = [budget EXCEPT !.observes = @ - 1]
    /\ QdBegin(Observer)
    /\ ret' = NoRet
    /\ UNCHANGED <<registryVars, mailboxes, total_sent, total_received,
                   orchVars, bc, cmd, hist>>
    /\ UNCHANGED <<memVars, conn, apiVars>>
    /\ NoteSums

ObserveEnd ==
    /\ QdEnd(Observer)
    /\ ret' = Ret("queue_depth", NoAgent, NoMsg, qd[Observer].total, TRUE)
    /\ UNCHANGED <<registryVars, mailboxes, total_sent, total_received,
                   orchVars, bc, cmd, budget, hist>>
    /\ UNCHANGED <<memVars, conn, apiVars>>
    /\ NoteSums

(***************************************************************************)
(* AgentRegistry and the register_agent / unregister_agent commands.       *)
(***************************************************************************)
\* AgentConfig, reduced to what the orchestrator reads
DefaultConfig == [max_retries |-> DefaultMaxRetries, timeout_ms |-> DefaultTimeoutMs]
\* the default, and one whose timeout races with the stub's 10 ms of work
Configs == {DefaultConfig, [max_retries |-> MaxRetries, timeout_ms |-> WorkMs]}

\* AgentRegistry::update_status
UpdateStatus(ags, a, status) ==
    IF a \in DOMAIN ags THEN [ags EXCEPT ![a] = status] ELSE ags

\* register_agent, AgentRegistry::register: mint the id, insert the metadata
RegisterAgents(cfg) ==
    /\ budget.registers > 0
    /\ cmd.op = "none"
    /\ nextId <= MaxAgents
    /\ agents' = With(agents, nextId, "Idle")
    /\ nextId' = nextId + 1
    /\ cmd' = [op |-> "register", step |-> "configs", id |-> nextId, cfg |-> cfg]
    /\ budget' = [budget EXCEPT !.registers = @ - 1]
    /\ ret' = NoRet
    /\ UNCHANGED <<configs, busVars, orchVars, qd, bc, hist>>
    /\ UNCHANGED <<memVars, conn, apiVars>>
    /\ NoteSums

\* AgentRegistry::register: insert the configuration
RegisterConfigs ==
    /\ cmd.op = "register"
    /\ cmd.step = "configs"
    /\ configs' = With(configs, cmd.id, cmd.cfg)
    /\ cmd' = [cmd EXCEPT !.step = "mailbox"]
    /\ ret' = NoRet
    /\ UNCHANGED <<agents, nextId, busVars, orchVars, qd, bc, budget, hist>>
    /\ UNCHANGED <<memVars, conn, apiVars>>
    /\ NoteSums

\* register_agent: message_bus.create_mailbox(agent_id), then return the id
RegisterMailbox ==
    /\ cmd.op = "register"
    /\ cmd.step = "mailbox"
    /\ readers = 0
    /\ mailboxes' = With(mailboxes, cmd.id, <<>>)
    /\ cmd' = [cmd EXCEPT !.op = "none", !.step = "none"]
    /\ ret' = Ret("register_agent", cmd.id, NoMsg, 0, TRUE)
    /\ UNCHANGED <<registryVars, total_sent, total_received, readers, orchVars,
                   qd, bc, budget, hist>>
    /\ UNCHANGED <<memVars, conn, apiVars>>
    /\ NoteSums

\* unregister_agent, AgentRegistry::unregister: both maps under both write locks
UnregisterRegistry(a) ==
    /\ budget.unregisters > 0
    /\ cmd.op = "none"
    /\ agents' = Without(agents, a)
    /\ configs' = Without(configs, a)
    /\ budget' = [budget EXCEPT !.unregisters = @ - 1]
    /\ IF a \in DOMAIN agents
       THEN /\ cmd' = [cmd EXCEPT !.op = "unregister", !.step = "mailbox", !.id = a]
            /\ ret' = NoRet
            /\ hist' = NoteUnregister
       ELSE /\ ret' = Ret("unregister_agent", a, NoMsg, 0, FALSE)
            /\ UNCHANGED <<cmd, hist>>
    /\ UNCHANGED <<nextId, busVars, orchVars, qd, bc>>
    /\ UNCHANGED <<memVars, conn, apiVars>>
    /\ NoteSums

\* AgentRegistry::unregister called on the registry itself, as the owner of
\* the Arc<AgentRegistry> handed to Orchestrator::new can: the mailbox stays
RegistryUnregister(a) ==
    /\ budget.unregisters > 0
    /\ cmd.op = "none"
    /\ agents' = Without(agents, a)
    /\ configs' = Without(configs, a)
    /\ budget' = [budget EXCEPT !.unregisters = @ - 1]
    /\ ret' = Ret("unregister", a, NoMsg, 0, a \in DOMAIN agents)
    /\ UNCHANGED <<nextId, busVars, orchVars, qd, bc, cmd, hist>>
    /\ UNCHANGED <<memVars, conn, apiVars>>
    /\ NoteSums

\* unregister_agent: if removed, message_bus.remove_mailbox(agent_id)
UnregisterMailbox ==
    /\ cmd.op = "unregister"
    /\ cmd.step = "mailbox"
    /\ readers = 0
    /\ mailboxes' = Without(mailboxes, cmd.id)
    /\ cmd' = [cmd EXCEPT !.op = "none", !.step = "none"]
    /\ ret' = Ret("unregister_agent", cmd.id, NoMsg, 0, TRUE)
    /\ hist' = NoteUnregister
    /\ UNCHANGED <<registryVars, total_sent, total_received, readers, orchVars,
                   qd, bc, budget>>
    /\ UNCHANGED <<memVars, conn, apiVars>>
    /\ NoteSums

(***************************************************************************)
(* Orchestrator.                                                           *)
(***************************************************************************)
Reason(r, a, n) == [reason |-> r, agent |-> a, count |-> n]
NoReason == Reason("none", NoAgent, 0)

ZeroCounts == [a \in AgentIds |-> 0]

\* OrchestratorMetrics::default()
ZeroMetrics == [total_iterations |-> 0, total_messages |-> 0,
                messages_per_agent |-> ZeroCounts, retry_count |-> 0,
                error_count |-> 0, queue_depth |-> 0]

\* the locals of a start() call that has not begun
IdleStart == [pc |-> "idle", iterations |-> 0, elapsed |-> 0, todo |-> {},
              processed_any |-> FALSE, cur |-> NoAgent, cfg |-> DefaultConfig,
              retries |-> 0, ok |-> TRUE, result |-> NoReason,
              passes |-> 0, popped |-> ZeroCounts, handled |-> ZeroCounts,
              fullAtPass |-> {}, pops |-> 0, errors0 |-> 0, retried0 |-> 0]

\* the agents whose mailbox holds a message
NonEmpty(mbs) == {a \in DOMAIN mbs : Len(mbs[a]) > 0}

\* lengths of the mailboxes, 0 for an agent without one
Lengths(mbs) == [a \in AgentIds |-> IF a \in DOMAIN mbs THEN Len(mbs[a]) ELSE 0]

\* start_time.elapsed() in ms, kept only up to what the loop guard can tell
\* apart: below every positive limit of the model (0) or past it
ClockValues == {0, DefaultMaxTimeMs}

\* the clock after an await: monotonic, and it may have passed the limit
Later(e) == {x \in ClockValues : x >= e}

\* execute_message: the stub's 10 ms of work under timeout(config.timeout_ms)
ExecOutcomes(cfg) ==
    IF cfg.timeout_ms < WorkMs THEN {FALSE}
    ELSE IF cfg.timeout_ms = WorkMs THEN {TRUE, FALSE}
    ELSE {TRUE}

\* start() returns r; its locals are dropped
Return(s, r) == [st EXCEPT ![s] = [IdleStart EXCEPT !.pc = "done", !.result = r,
                                             !.passes = st[s].passes,
                                             !.pops = st[s].pops]]

\* a limit test that lets one message too many through
OverMessageLimit(count) == count > loop_guard.max_messages_per_agent

\* if agent_msg_count >= self.loop_guard.max_messages_per_agent
AtMessageLimit(count) == count >= loop_guard.max_messages_per_agent

\* a loop that stays with the agent it has just served
SameAgent(todo, a) == todo

\* for agent in agents: the agents of the snapshot still to visit after a
NextAgent(todo, a) == todo \ {a}

\* counters that forget the per-agent count
CountTotalOnly(m, a) == [m EXCEPT !.total_messages = @ + 1]

\* messages_per_agent.entry(agent_id).or_insert(0) += 1; total_messages += 1
CountMessage(m, a) == [m EXCEPT !.messages_per_agent[a] = @ + 1,
                                !.total_messages = @ + 1]

\* a pass that forgets to count itself
SameIteration(i) == i

\* iterations += 1
NextIteration(i) == i + 1

\* Orchestrator::start, up to the loop: running = true, iterations = 0
Start(s) ==
    /\ st[s].pc = "idle"
    /\ running' = TRUE
    /\ st' = [st EXCEPT ![s].pc = "top"]
    /\ hist' = IF Running THEN hist
               ELSE [queued |-> Lengths(mailboxes), sentSinceStart |-> FALSE,
                     stopReq |-> FALSE, unreg |-> cmd.op = "unregister"]
    /\ ret' = NoRet
    /\ UNCHANGED <<registryVars, busVars, loop_guard, metrics, qd, bc, cmd, budget>>
    /\ UNCHANGED <<memVars, conn, apiVars>>
    /\ NoteSums

\* a stop() whose write does not reach the flag the loop reads
StopLost ==
    /\ budget.stops > 0
    /\ budget' = [budget EXCEPT !.stops = @ - 1]
    /\ running' = running
    /\ hist' = IF Running THEN [hist EXCEPT !.stopReq = TRUE] ELSE hist
    /\ ret' = Ret("stop", NoAgent, NoMsg, 0, TRUE)
    /\ UNCHANGED <<registryVars, busVars, loop_guard, metrics, st, qd, bc, cmd>>
    /\ UNCHANGED <<memVars, conn, apiVars>>
    /\ NoteSums

\* Orchestrator::stop
Stop ==
    /\ budget.stops > 0
    /\ budget' = [budget EXCEPT !.stops = @ - 1]
    /\ running' = FALSE
    /\ hist' = IF Running THEN [hist EXCEPT !.stopReq = TRUE] ELSE hist
    /\ ret' = Ret("stop", NoAgent, NoMsg, 0, TRUE)
    /\ UNCHANGED <<registryVars, busVars, loop_guard, metrics, st, qd, bc, cmd>>
    /\ UNCHANGED <<memVars, conn, apiVars>>
    /\ NoteSums

\* history: one more pass begun; counted up to one past the limit
NotePass(n) == IF n > loop_guard.max_iterations THEN n ELSE n + 1

\* tests that look at the clock before the iteration limit
StopTestTimeFirst(s) ==
    IF ~running THEN "ManualStop"
    ELSE IF st[s].elapsed >= loop_guard.max_execution_time_ms
    THEN "MaxExecutionTime"
    ELSE IF st[s].iterations >= loop_guard.max_iterations THEN "MaxIterations"
    ELSE IF DOMAIN agents = {} THEN "Completed"
    ELSE "none"
\* the tests at the top of the loop, in the order of the code: the reason
\* start() returns, or "none"
StopTest(s) ==
    IF ~running THEN "ManualStop"
    ELSE IF st[s].iterations >= loop_guard.max_iterations THEN "MaxIterations"
    ELSE IF st[s].elapsed >= loop_guard.max_execution_time_ms
    THEN "MaxExecutionTime"
    ELSE IF DOMAIN agents = {} THEN "Completed"
    ELSE "none"

\* top of the loop: running flag, iteration limit, elapsed time, then the
\* snapshot of the registry
Top(s) ==
    /\ st[s].pc = "top"
    /\ st' = IF StopTest(s) # "none"
             THEN Return(s, Reason(StopTest(s), NoAgent, 0))
             ELSE [st EXCEPT ![s].pc = "loop", ![s].todo = DOMAIN agents,
                             ![s].processed_any = FALSE,
                             ![s].passes = NotePass(@), ![s].popped = ZeroCounts,
                             ![s].handled = ZeroCounts,
                             ![s].fullAtPass = NonEmpty(mailboxes) \cap DOMAIN agents]
    /\ ret' = NoRet
    /\ UNCHANGED <<registryVars, busVars, loop_guard, running, metrics, qd, bc,
                   cmd, budget, hist>>
    /\ UNCHANGED <<memVars, conn, apiVars>>
    /\ NoteSums

\* for agent in agents: the per-agent limit, then process_agent_message up to
\* the pop and the status update
Visit(s) ==
    /\ st[s].pc = "loop"
    /\ \E a \in st[s].todo :
        LET count == metrics.messages_per_agent[a] IN
        IF AtMessageLimit(count)
        THEN /\ st' = Return(s, Reason("MaxMessagesPerAgent", a, count))
             /\ UNCHANGED <<agents, mailboxes>>
        ELSE IF a \notin DOMAIN mailboxes \/ Len(mailboxes[a]) = 0
        THEN /\ st' = [st EXCEPT ![s].todo = NextAgent(@, a)]
             /\ UNCHANGED <<agents, mailboxes>>
        ELSE /\ mailboxes' = [mailboxes EXCEPT ![a] = HeapRest(@)]
             /\ agents' = UpdateStatus(agents, a, "Processing")
             /\ st' = [st EXCEPT ![s].pc = "config", ![s].cur = a,
                                 ![s].popped[a] = @ + 1, ![s].pops = @ + 1]
    /\ ret' = NoRet
    /\ UNCHANGED <<configs, nextId, total_sent, total_received, readers,
                   loop_guard, running, metrics, qd, bc, cmd, budget, hist>>
    /\ UNCHANGED <<memVars, conn, apiVars>>
    /\ NoteSums

\* process_agent_message: registry.get_config(agent_id).await?
GetConfig(s) ==
    /\ st[s].pc = "config"
    /\ st' = IF st[s].cur \in DOMAIN configs
             THEN [st EXCEPT ![s].pc = "exec", ![s].cfg = configs[st[s].cur],
                             ![s].retries = 0,
                             ![s].errors0 = metrics.error_count,
                             ![s].retried0 = metrics.retry_count]
             ELSE [st EXCEPT ![s].pc = "loop", ![s].todo = NextAgent(@, st[s].cur)]
    /\ ret' = NoRet
    /\ UNCHANGED <<registryVars, busVars, loop_guard, running, metrics, qd, bc,
                   cmd, budget, hist>>
    /\ UNCHANGED <<memVars, conn, apiVars>>
    /\ NoteSums

\* a wrapper that allows one attempt more
RetriesExhaustedLate(retries, cfg) == retries > cfg.max_retries
\* if retries >= config.max_retries
RetriesExhausted(retries, cfg) == retries >= cfg.max_retries

\* execute_with_retry: one attempt, and what follows it
Execute(s) ==
    /\ st[s].pc = "exec"
    /\ \E ok \in ExecOutcomes(st[s].cfg), e \in Later(st[s].elapsed) :
        IF ok
        THEN /\ st' = [st EXCEPT ![s].pc = "finish", ![s].ok = TRUE,
                                 ![s].elapsed = e]
             /\ UNCHANGED metrics
        ELSE IF RetriesExhausted(st[s].retries + 1, st[s].cfg)
        THEN /\ st' = [st EXCEPT ![s].pc = "finish", ![s].ok = FALSE,
                                 ![s].retries = @ + 1, ![s].elapsed = e]
             /\ metrics' = [metrics EXCEPT !.error_count = @ + 1]
        ELSE /\ st' = [st EXCEPT ![s].retries = @ + 1, ![s].elapsed = e]
             /\ metrics' = [metrics EXCEPT !.retry_count = @ + 1]
    /\ ret' = NoRet
    /\ UNCHANGED <<registryVars, busVars, loop_guard, running, qd, bc, cmd,
                   budget, hist>>
    /\ UNCHANGED <<memVars, conn, apiVars>>
    /\ NoteSums

\* process_agent_message after the retry wrapper: status, mark_received,
\* the counters; then start()'s match on the result
Finish(s) ==
    /\ st[s].pc = "finish"
    /\ LET a == st[s].cur IN
        /\ agents' = UpdateStatus(agents, a, IF st[s].ok THEN "Idle" ELSE "Failed")
        /\ MarkReceived
        /\ metrics' = CountMessage(metrics, a)
        /\ st' = IF st[s].ok
                 THEN [st EXCEPT ![s].pc = "loop", ![s].todo = NextAgent(@, a),
                                 ![s].processed_any = TRUE,
                                 ![s].handled[a] = @ + 1]
                 ELSE Return(s, Reason("AgentError", a, 0))
    /\ ret' = NoRet
    /\ UNCHANGED <<configs, nextId, mailboxes, total_sent, readers, loop_guard,
                   running, qd, bc, cmd, budget, hist>>
    /\ UNCHANGED <<memVars, conn, apiVars>>
    /\ NoteSums

\* after the for loop: metrics.total_iterations = iterations, and the call of
\* queue_depth() for metrics.queue_depth begins
LoopEnd(s) ==
    /\ st[s].pc = "loop"
    /\ st[s].todo = {}
    /\ metrics' = [metrics EXCEPT !.total_iterations = st[s].iterations]
    /\ QdBegin(s)
    /\ st' = [st EXCEPT ![s].pc = "qd1"]
    /\ ret' = NoRet
    /\ UNCHANGED <<registryVars, mailboxes, total_sent, total_received,
                   loop_guard, running, bc, cmd, budget, hist>>
    /\ UNCHANGED <<memVars, conn, apiVars>>
    /\ NoteSums

\* metrics.queue_depth is set, iterations += 1, and processed_any is tested:
\* `!processed_any && queue_depth() == 0` calls queue_depth() only if
\* nothing was processed; otherwise the 10 ms sleep follows
Qd1End(s) ==
    /\ st[s].pc = "qd1"
    /\ QdEnd(s)
    /\ metrics' = [metrics EXCEPT !.queue_depth = qd[s].total]
    /\ \E e \in Later(st[s].elapsed) :
        st' = IF st[s].processed_any
              THEN [st EXCEPT ![s].pc = "top", ![s].iterations = NextIteration(@),
                              ![s].elapsed = e]
              ELSE [st EXCEPT ![s].pc = "check", ![s].iterations = NextIteration(@)]
    /\ ret' = NoRet
    /\ UNCHANGED <<registryVars, mailboxes, total_sent, total_received,
                   loop_guard, running, bc, cmd, budget, hist>>
    /\ UNCHANGED <<memVars, conn, apiVars>>
    /\ NoteSums

\* the second queue_depth() call begins
Check(s) ==
    /\ st[s].pc = "check"
    /\ QdBegin(s)
    /\ st' = [st EXCEPT ![s].pc = "qd2"]
    /\ ret' = NoRet
    /\ UNCHANGED <<registryVars, mailboxes, total_sent, total_received,
                   loop_guard, running, metrics, bc, cmd, budget, hist>>
    /\ UNCHANGED <<memVars, conn, apiVars>>
    /\ NoteSums

\* queue_depth() == 0: Completed; otherwise sleep 10 ms and loop
Qd2End(s) ==
    /\ st[s].pc = "qd2"
    /\ QdEnd(s)
    /\ \E e \in Later(st[s].elapsed) :
        st' = IF qd[s].total = 0
              THEN Return(s, Reason("Completed", NoAgent, 0))
              ELSE [st EXCEPT ![s].pc = "top", ![s].elapsed = e]
    /\ ret' = NoRet
    /\ UNCHANGED <<registryVars, mailboxes, total_sent, total_received,
                   loop_guard, running, metrics, bc, cmd, budget, hist>>
    /\ UNCHANGED <<memVars, conn, apiVars>>
    /\ NoteSums

(***************************************************************************)
(* RingBuffer and MemoryManager::add_to_agent.                             *)
(***************************************************************************)
\* summarization_threshold: 0.8, as a percentage
ThresholdPct == 80
\* trigger_summarization: the head and the tail kept, the cut-off, "..."
HeadTailLen == 100
SummaryCutoff == 200
EllipsisLen == 3
CharsPerToken == 4

\* u32 arithmetic wraps at TokenWrap when overflow checks are off
TokenWrap == 2 ^ TokenBits

\* token counts and content lengths (bytes) a caller may pass
TokenCounts == {0, 1, SummaryCutoff \div CharsPerToken, TokenWrap - 1}
ContentLens == {0, SummaryCutoff \div 5, SummaryCutoff + 1}
\* MemoryEntry, reduced to its token_count and the length of its content
MemoryEntries == [token_count : TokenCounts, len : ContentLens]
Capacities == {0, 1, SummaryCutoff \div CharsPerToken, TokenWrap - 1}

\* RingBuffer::new(capacity_tokens), built with or without overflow checks;
\* pushed is history: every entry push has appended, in order
RingBufferNew(cap, checked) ==
    [entries |-> <<>>, capacity |-> cap, total_tokens |-> 0, total_entries |-> 0,
     summarization_count |-> 0, eviction_count |-> 0, checked |-> checked,
     pushed |-> <<>>]

\* an eviction test that tolerates one token too many
FarOverCapacity(total, cap) == total > cap + 1

\* while stats.total_tokens > self.capacity_tokens
OverCapacity(total, cap) == total > cap

\* the eviction loop of push; o is [rb, ok]: with overflow checks the
\* subtraction panics when it would go below 0, after pop_front
RECURSIVE EvictLoop(_)
EvictLoop(o) ==
    IF ~OverCapacity(o.rb.total_tokens, o.rb.capacity) \/ Len(o.rb.entries) = 0
    THEN o
    ELSE LET ev == Head(o.rb.entries).token_count IN
         IF o.rb.checked /\ ev > o.rb.total_tokens
         THEN [rb |-> [o.rb EXCEPT !.entries = Tail(@)], ok |-> FALSE]
         ELSE EvictLoop([o EXCEPT !.rb.entries = Tail(@),
                                  !.rb.total_tokens = (@ - ev) % TokenWrap,
                                  !.rb.eviction_count = @ + 1])

\* RingBuffer::push: [rb, ok]; ok is FALSE when the call panicked
Push(r, e) ==
    LET pushed == [r EXCEPT !.entries = Append(@, e),
                            !.pushed = Append(@, e)] IN
    IF r.checked /\ r.total_tokens + e.token_count >= TokenWrap
    THEN [rb |-> pushed, ok |-> FALSE]
    ELSE LET counted == [pushed EXCEPT
                            !.total_tokens = (@ + e.token_count) % TokenWrap,
                            !.total_entries = Len(pushed.entries)]
             o == EvictLoop([rb |-> counted, ok |-> TRUE])
         IN  IF o.ok THEN [o EXCEPT !.rb.total_entries = Len(o.rb.entries)] ELSE o

\* RingBuffer::should_summarize: total_tokens / capacity >= threshold in f32;
\* 0/0 is NaN (false), x/0 is infinite (true)
ShouldSummarize(r) ==
    IF r.capacity = 0 THEN r.total_tokens > 0
    ELSE r.total_tokens * 100 >= ThresholdPct * r.capacity

\* RingBuffer::summarize
Summarize(r, e) ==
    [r EXCEPT !.entries = <<e>>, !.total_tokens = e.token_count,
              !.total_entries = 1, !.summarization_count = @ + 1]

\* RingBuffer::clear
Clear(r) == [r EXCEPT !.entries = <<>>, !.total_tokens = 0, !.total_entries = 0]

RECURSIVE SumLens(_)
SumLens(es) == IF es = <<>> THEN 0 ELSE Head(es).len + SumLens(Tail(es))

\* trigger_summarization: the contents joined by "\n", cut to head...tail
\* when longer than 200 bytes
SummaryLen(es) ==
    LET full == SumLens(es) + Len(es) - 1 IN
    IF full > SummaryCutoff THEN HeadTailLen + EllipsisLen + HeadTailLen ELSE full

\* (summary.len() / 4) as u32
SummaryTokens(es) == (SummaryLen(es) \div CharsPerToken) % TokenWrap

NoAdd == [pc |-> "idle", summary |-> [token_count |-> 0, len |-> 0],
          triggered |-> FALSE]

MemRet(op, ok) == Ret(op, NoAgent, NoMsg, 0, ok)

\* a direct RingBuffer::push on the agent's buffer
RbPush(e) ==
    /\ budget.memops > 0
    /\ Len(rb.entries) < MaxEntries
    /\ budget' = [budget EXCEPT !.memops = @ - 1]
    /\ rb' = Push(rb, e).rb
    /\ ret' = MemRet("rb_push", Push(rb, e).ok)
    /\ UNCHANGED <<runtimeVars, boardVars, conn, apiVars, add>>

\* a direct RingBuffer::summarize with the caller's summary
RbSummarize(e) ==
    /\ budget.memops > 0
    /\ budget' = [budget EXCEPT !.memops = @ - 1]
    /\ rb' = Summarize(rb, e)
    /\ ret' = MemRet("rb_summarize", TRUE)
    /\ UNCHANGED <<runtimeVars, boardVars, conn, apiVars, add>>

\* a direct RingBuffer::clear
RbClear ==
    /\ budget.memops > 0
    /\ budget' = [budget EXCEPT !.memops = @ - 1]
    /\ rb' = Clear(rb)
    /\ ret' = MemRet("rb_clear", TRUE)
    /\ UNCHANGED <<runtimeVars, boardVars, conn, apiVars, add>>

\* add_to_agent: buffer.push(entry); a panic of push ends the call
AddPush(e) ==
    /\ budget.memops > 0
    /\ add.pc = "idle"
    /\ Len(rb.entries) < MaxEntries
    /\ budget' = [budget EXCEPT !.memops = @ - 1]
    /\ rb' = Push(rb, e).rb
    /\ IF Push(rb, e).ok
       THEN /\ add' = [add EXCEPT !.pc = "check"]
            /\ ret' = MemRet("rb_push", TRUE)
       ELSE /\ add' = add
            /\ ret' = MemRet("add_to_agent", FALSE)
    /\ UNCHANGED <<runtimeVars, boardVars, conn, apiVars>>

\* add_to_agent: if buffer.should_summarize(); otherwise Ok(())
AddCheck ==
    /\ add.pc = "check"
    /\ IF ShouldSummarize(rb)
       THEN /\ add' = [add EXCEPT !.pc = "get_all", !.triggered = TRUE]
            /\ ret' = NoRet
       ELSE /\ add' = [add EXCEPT !.pc = "idle"]
            /\ ret' = MemRet("add_to_agent", TRUE)
    /\ UNCHANGED <<runtimeVars, boardVars, conn, apiVars, rb, budget>>

\* trigger_summarization: get_all(); nothing to do when it is empty,
\* otherwise the summary and its token estimate
AddGetAll ==
    /\ add.pc = "get_all"
    /\ IF rb.entries = <<>>
       THEN /\ add' = [add EXCEPT !.pc = "idle"]
            /\ ret' = MemRet("add_to_agent", TRUE)
       ELSE /\ add' = [add EXCEPT !.pc = "summarize",
                                  !.summary = [token_count |-> SummaryTokens(rb.entries),
                                               len |-> SummaryLen(rb.entries)]]
            /\ ret' = NoRet
    /\ UNCHANGED <<runtimeVars, boardVars, conn, apiVars, rb, budget>>

\* trigger_summarization: buffer.summarize(summary, summary_tokens); Ok(())
AddSummarize ==
    /\ add.pc = "summarize"
    /\ rb' = Summarize(rb, add.summary)
    /\ add' = [add EXCEPT !.pc = "idle"]
    /\ ret' = MemRet("add_to_agent", TRUE)
    /\ UNCHANGED <<runtimeVars, boardVars, conn, apiVars, budget>>

\* no buffer in use
RingIdle ==
    /\ rb = RingBufferNew(0, FALSE)
    /\ add = NoAdd

(***************************************************************************)
(* Blackboard.                                                             *)
(***************************************************************************)
Keys == 1..MaxBoard + 1
Values == {1, 2}
Ttls == {0, 1}
\* expires_at: None
NoExpiry == -1

\* BlackboardEntry::new at time t
BlackboardEntryNew(k, v, t) ==
    [key |-> k, value |-> v, expires_at |-> NoExpiry, last_accessed |-> t,
     access_count |-> 0]

\* BlackboardEntry::with_ttl at time t
WithTtl(e, ttl, t) == [e EXCEPT !.expires_at = t + ttl]

\* the entry a caller builds at time t and hands to put: without a time
\* to live, or with one
Lifetimes == {NoExpiry} \cup Ttls
FreshEntry(k, v, ttl, t) ==
    IF ttl = NoExpiry THEN BlackboardEntryNew(k, v, t)
    ELSE WithTtl(BlackboardEntryNew(k, v, t), ttl, t)

\* an expiry test that is one tick late
IsExpiredLate(e, t) == e.expires_at # NoExpiry /\ t > e.expires_at + 1

\* BlackboardEntry::is_expired at time t
IsExpired(e, t) == e.expires_at # NoExpiry /\ t > e.expires_at

\* BlackboardEntry::touch at time t
Touch(e, t) == [e EXCEPT !.last_accessed = t, !.access_count = @ + 1]

\* BlackboardStats::default
NoStats == [total_entries |-> 0, expired_entries |-> 0, total_accesses |-> 0,
            eviction_count |-> 0, hit_count |-> 0, miss_count |-> 0]

\* Blackboard::new(max_entries)
BlackboardNew(max) == [entries |-> EmptyMap, max_entries |-> max, stats |-> NoStats]

\* HashMap::remove for each key of a set, HashMap::len
WithoutAll(es, ks) == [k \in DOMAIN es \ ks |-> es[k]]
Size(es) == Cardinality(DOMAIN es)

\* Blackboard::cleanup_expired
CleanupExpired(b, t) ==
    LET expired == {k \in DOMAIN b.entries : IsExpired(b.entries[k], t)}
        kept == WithoutAll(b.entries, expired)
    IN  [b EXCEPT !.entries = kept,
                  !.stats.expired_entries = @ + Cardinality(expired),
                  !.stats.total_entries = Size(kept)]

\* min_by_key(last_accessed): the first minimum in the HashMap's iteration
\* order, which is any of the entries with the smallest last_accessed
LruKeys(es) ==
    {k \in DOMAIN es : \A j \in DOMAIN es : es[k].last_accessed <= es[j].last_accessed}

\* Blackboard::evict_lru: the boards it can leave
EvictLru(b) ==
    IF DOMAIN b.entries = {}
    THEN {[b EXCEPT !.stats.total_entries = 0]}
    ELSE {[b EXCEPT !.entries = Without(@, k),
                    !.stats.eviction_count = @ + 1,
                    !.stats.total_entries = Size(b.entries) - 1] :
             k \in LruKeys(b.entries)}

\* entries.insert(entry.key, entry); stats.total_entries = entries.len()
Insert(b, e) ==
    [b EXCEPT !.entries = With(@, e.key, e),
              !.stats.total_entries = Size(With(b.entries, e.key, e))]

\* Blackboard::put at time t: the boards it can leave
Put(b, e, t) ==
    LET c == CleanupExpired(b, t) IN
    IF Size(c.entries) >= c.max_entries /\ e.key \notin DOMAIN c.entries
    THEN {Insert(d, Touch(e, t)) : d \in EvictLru(c)}
    ELSE {Insert(c, Touch(e, t))}

\* Blackboard::get at time t: [bb, got], got is <<>> for None
Get(b, k, t) ==
    IF k \in DOMAIN b.entries
    THEN IF IsExpired(b.entries[k], t)
         THEN [bb |-> [b EXCEPT !.entries = Without(@, k),
                                !.stats.expired_entries = @ + 1,
                                !.stats.miss_count = @ + 1],
               got |-> <<>>]
         ELSE [bb |-> [b EXCEPT !.entries[k] = Touch(@, t),
                                !.stats.total_accesses = @ + 1,
                                !.stats.hit_count = @ + 1],
               got |-> <<Touch(b.entries[k], t)>>]
    ELSE [bb |-> [b EXCEPT !.stats.miss_count = @ + 1], got |-> <<>>]

\* Blackboard::remove
Remove(b, k) ==
    [b EXCEPT !.entries = Without(@, k),
              !.stats.total_entries = Size(Without(b.entries, k))]

\* the expiration time of e is set and lies before t
Lapsed(e, t) == e.expires_at # NoExpiry /\ e.expires_at < t
LapsedKeys(es, t) == {k \in DOMAIN es : Lapsed(es[k], t)}

\* history of the blackboard calls: the last call, its key, what it
\* returned, the board it found, the value of a key put and not read since
\* (unread; fresh is that value for the key of a get), and the keys whose
\* entry has expired with no put since (dead)
NoBoardHist == [op |-> "none", key |-> 0, got |-> <<>>, pre |-> BlackboardNew(0),
                fresh |-> <<>>, unread |-> EmptyMap, dead |-> {}, gets |-> 0]

\* a put of an entry built now
BbPut(k, v, ttl) ==
    /\ budget.boardops > 0
    /\ budget' = [budget EXCEPT !.boardops = @ - 1]
    /\ bb' \in Put(bb, FreshEntry(k, v, ttl, now), now)
    /\ bbh' = [op |-> "put", key |-> k, got |-> <<>>, pre |-> bb,
               fresh |-> <<>>,
               unread |-> With(bbh.unread, k, v),
               dead |-> (bbh.dead \ {k}) \cup LapsedKeys(bb'.entries, now),
               gets |-> bbh.gets]
    /\ ret' = MemRet("bb_put", TRUE)
    /\ UNCHANGED <<runtimeVars, ringVars, conn, apiVars, now>>

\* a get
BbGet(k) ==
    /\ budget.boardops > 0
    /\ budget' = [budget EXCEPT !.boardops = @ - 1]
    /\ bb' = Get(bb, k, now).bb
    /\ bbh' = [op |-> "get", key |-> k, got |-> Get(bb, k, now).got, pre |-> bb,
               fresh |-> IF k \in DOMAIN bbh.unread THEN <<bbh.unread[k]>> ELSE <<>>,
               unread |-> Without(bbh.unread, k),
               dead |-> bbh.dead \cup LapsedKeys(bb'.entries, now),
               gets |-> bbh.gets + 1]
    /\ ret' = MemRet("bb_get", Get(bb, k, now).got # <<>>)
    /\ UNCHANGED <<runtimeVars, ringVars, conn, apiVars, now>>

\* a remove
BbRemove(k) ==
    /\ budget.boardops > 0
    /\ budget' = [budget EXCEPT !.boardops = @ - 1]
    /\ bb' = Remove(bb, k)
    /\ bbh' = [op |-> "remove", key |-> k, got |-> <<>>, pre |-> bb,
               fresh |-> <<>>,
               unread |-> Without(bbh.unread, k),
               dead |-> bbh.dead \cup LapsedKeys(bb'.entries, now),
               gets |-> bbh.gets]
    /\ ret' = MemRet("bb_remove", k \in DOMAIN bb.entries)
    /\ UNCHANGED <<runtimeVars, ringVars, conn, apiVars, now>>

\* the system clock advances
Tick ==
    /\ now < MaxTime
    /\ now' = now + 1
    /\ bbh' = [bbh EXCEPT !.op = "tick",
                          !.dead = @ \cup LapsedKeys(bb.entries, now + 1)]
    /\ UNCHANGED <<runtimeVars, ringVars, conn, apiVars, bb, ret, budget>>

\* no blackboard in use
BoardIdle ==
    /\ bb = BlackboardNew(0)
    /\ now = 0
    /\ bbh = NoBoardHist

(***************************************************************************)
(* Connectors: Claude Code, Codex CLI, Ollama.                             *)
(***************************************************************************)
CliConnectors == {"claude_code", "codex_cli"}
Connectors == CliConnectors \cup {"ollama"}

\* ConnectorMetrics::default, its three counters
\* avg_n is history: the n the last update of avg_response_time_ms divided
\* by, none before the first update
NoMetrics == [spawn_count |-> 0, success_count |-> 0, error_count |-> 0,
              avg_n |-> <<>>]

\* update_response_time: let n = metrics.spawn_count as f64
UpdateResponseTime(m) == [m EXCEPT !.avg_n = <<m.spawn_count>>]

\* an update that forgets the outcome
CountSpawnOnly(m, success) == [m EXCEPT !.spawn_count = @ + 1]

\* update_metrics(success), and the same updates in chat and embed, all
\* made while the metrics mutex is held
UpdateMetrics(m, success) ==
    IF success
    THEN [m EXCEPT !.spawn_count = @ + 1, !.success_count = @ + 1]
    ELSE [m EXCEPT !.spawn_count = @ + 1, !.error_count = @ + 1]

\* the base of the exponential backoff, in ms
BackoffBaseMs == 100

\* Duration::from_millis(100 * 2_u64.pow(retries - 1))
BackoffMs(retries) == BackoffBaseMs * 2 ^ (retries - 1)

\* a loop that gives up one failure too late
ExhaustedLate(retries, max) == retries > max

\* if retries >= max_retries
Exhausted(retries, max) == retries >= max

(* ConnectorMessage: the events of a stream.  A line of the child's stdout *)
(* is a sequence of pieces, each a delimiter of parse_usage or a word      *)
(* between delimiters; a JSON line is the marker "{json}" followed by the  *)
(* type and the content of the message it encodes.                         *)
Content(c) == [type |-> "content", content |-> c, input_tokens |-> 0, output_tokens |-> 0]
Usage(n, m) == [type |-> "usage", content |-> <<>>, input_tokens |-> n, output_tokens |-> m]
Done == [type |-> "done", content |-> <<>>, input_tokens |-> 0, output_tokens |-> 0]

\* line.split(&[',', ' ', ':']): the parts, "" between adjacent delimiters
Delims == {",", " ", ":"}
RECURSIVE SplitFrom(_, _)
SplitFrom(line, cur) ==
    IF line = <<>> THEN <<cur>>
    ELSE IF Head(line) \in Delims THEN <<cur>> \o SplitFrom(Tail(line), "")
    ELSE SplitFrom(Tail(line), Head(line))
Split(line) == SplitFrom(line, "")

\* next.parse::<u64>(): <<n>>, or <<>> for an error
ParseU64(w) ==
    IF w = "75" THEN <<75>> ELSE IF w = "30" THEN <<30>> ELSE <<>>

\* the words with parts[i].contains("input") (Codex CLI: or "prompt"), and
\* those with contains("output") (Codex CLI: or "completion")
InputWords(c) == IF c = "codex_cli" THEN {"input", "prompt"} ELSE {"input"}
OutputWords(c) == IF c = "codex_cli" THEN {"output", "completion"} ELSE {"output"}

\* the loop of parse_usage from part i on; acc is <<input_tokens, output_tokens>>
RECURSIVE ScanUsage(_, _, _, _)
ScanUsage(c, parts, i, acc) ==
    IF i > Len(parts) THEN acc
    ELSE LET next == IF i + 1 <= Len(parts) THEN ParseU64(parts[i + 1]) ELSE <<>>
         IN  IF parts[i] \in InputWords(c)
             THEN ScanUsage(c, parts, i + 1, IF next # <<>> THEN <<next[1], acc[2]>> ELSE acc)
             ELSE IF parts[i] \in OutputWords(c)
             THEN ScanUsage(c, parts, i + 1, IF next # <<>> THEN <<acc[1], next[1]>> ELSE acc)
             ELSE ScanUsage(c, parts, i + 1, acc)

\* parse_usage: <<Usage>> or <<>> for None
ParseUsage(c, line) ==
    LET acc == ScanUsage(c, Split(line), 1, <<0, 0>>) IN
    IF acc[1] > 0 \/ acc[2] > 0 THEN <<Usage(acc[1], acc[2])>> ELSE <<>>

\* parse_output_line: <<event>> or <<>> for None.  JSON first, then the
\* usage patterns, then content unless the line is blank (Codex CLI: or
\* starts with '/').  No line considered here is an OpenAI usage object.
ParseOutputLine(c, line) ==
    IF line # <<>> /\ Head(line) = "{json}"
    THEN IF line[2] = "done" THEN <<Done>> ELSE <<Content(<<line[3]>>)>>
    ELSE IF (\E i \in 1..Len(line) : line[i] \in {"tokens", "usage"})
            /\ ParseUsage(c, line) # <<>>
    THEN ParseUsage(c, line)
    ELSE IF (\E i \in 1..Len(line) : line[i] # " ")
            /\ ~(c = "codex_cli" /\ Head(line) = "/help")
    THEN <<Content(line)>>
    ELSE <<>>

\* stream_output: the events of the lines of the child's stdout, in order
RECURSIVE StreamOutput(_, _)
StreamOutput(c, script) ==
    IF script = <<>> THEN <<>>
    ELSE ParseOutputLine(c, Head(script)) \o StreamOutput(c, Tail(script))

\* lines a child may print
JsonHi == <<"{json}", "content", "hi">>
JsonDone == <<"{json}", "done">>
Goodbye == <<"goodbye">>
UsageSpaced(kin, kout) ==
    <<kin, ":", " ", "75", " ", "tokens", ",", " ", kout, ":", " ", "30", " ", "tokens">>
UsageTight(kin, kout) == <<kin, ":", "75", " ", kout, ":", "30", " ", "tokens">>
Lines == {JsonHi, JsonDone, Goodbye, <<>>, <<"/help">>,
          UsageSpaced("prompt", "completion"), UsageSpaced("input", "output"),
          UsageTight("input", "output")}

\* how one attempt of try_execute ends
Outcomes == {"exit_ok", "exit_fail", "timeout", "spawn_error"}

\* one execute call: position, retry counter, and for the record the
\* attempts made, spawn_count when it began, the backoffs slept, the events
\* sent into its channel and the children it left running
NoCall == [pc |-> "idle", retries |-> 0, attempts |-> 0, spawn0 |-> 0,
           slept |-> <<>>, stream |-> <<>>, orphans |-> 0]

\* the last task spawned by chat that finished
NoChat == [result |-> "none", attempts |-> 0, health |-> "Healthy"]

\* the connectors after new(config) with config.max_retries = r; every
\* child prints the lines of script
ConnNew(r, script) ==
    [metrics |-> [c \in Connectors |-> NoMetrics],
     health |-> [c \in Connectors |-> "Healthy"],
     exec |-> [c \in CliConnectors |-> NoCall],
     embed |-> [pc |-> "idle", retries |-> 0],
     chats |-> 0, chat |-> NoChat, max_retries |-> r, script |-> script]

\* mpsc::channel(100)
ChannelCapacity == 100

\* the events of an attempt do not fit into what is left of the channel,
\* which nobody reads before execute has returned the receiver: a send
\* waits for a slot
ChannelFull(stream, sent) == Len(stream) + Len(sent) > ChannelCapacity

\* execute(prompt): the channel, retries = 0, enter the loop
ExecuteBegin(c) ==
    /\ budget.calls > 0
    /\ conn.exec[c].pc # "try"
    /\ budget' = [budget EXCEPT !.calls = @ - 1]
    /\ conn' = [conn EXCEPT !.exec[c] =
                   [NoCall EXCEPT !.pc = "try",
                                  !.spawn0 = conn.metrics[c].spawn_count]]
    /\ ret' = NoRet
    /\ UNCHANGED <<runtimeVars, memVars, apiVars>>

\* one turn of the loop of execute.  When the channel cannot take the
\* events of the attempt and its Done, a reader task or try_execute itself
\* waits in send for ever and the call is blocked.  try_execute: a child that exits has
\* its lines streamed and Done sent before the exit status is looked at; a
\* timeout or a spawn error returns through `?` before that, and the child
\* of a timed-out attempt is dropped without being killed.  Then
\* update_metrics, update_health and the return, or the backoff.
TryExecute(c, outcome) ==
    /\ conn.exec[c].pc = "try"
    /\ LET x == conn.exec[c]
           ok == outcome = "exit_ok"
           retries == IF ok THEN x.retries ELSE x.retries + 1
           over == ok \/ Exhausted(retries, conn.max_retries)
           sent == IF outcome \in {"exit_ok", "exit_fail"}
                   THEN StreamOutput(c, conn.script) \o <<Done>> ELSE <<>>
       IN  IF ChannelFull(x.stream, sent)
           THEN /\ conn' = [conn EXCEPT
                               !.exec[c] = [x EXCEPT
                                   !.pc = "blocked",
                                   !.attempts = @ + 1,
                                   !.stream = @ \o SubSeq(sent, 1,
                                       ChannelCapacity - Len(x.stream))]]
                /\ ret' = NoRet
           ELSE /\ conn' = [conn EXCEPT
                          !.metrics[c] =
                              UpdateMetrics(IF ok THEN UpdateResponseTime(@)
                                            ELSE @, ok),
                          !.health[c] = IF ok THEN "Healthy"
                                        ELSE IF over THEN "Unhealthy" ELSE @,
                          !.exec[c] = [x EXCEPT
                              !.pc = IF ok THEN "ok" ELSE IF over THEN "err" ELSE "try",
                              !.retries = retries,
                              !.attempts = @ + 1,
                              !.slept = IF over THEN @ ELSE Append(@, BackoffMs(retries)),
                              !.stream = @ \o sent,
                              !.orphans = IF outcome = "timeout" THEN @ + 1 ELSE @]]
                /\ ret' = IF over THEN MemRet("execute", ok) ELSE NoRet
    /\ UNCHANGED <<runtimeVars, memVars, apiVars, budget>>

\* OllamaConnector::chat: spawns the task and returns the receiver
Chat ==
    /\ budget.calls > 0
    /\ budget' = [budget EXCEPT !.calls = @ - 1]
    /\ conn' = [conn EXCEPT !.chats = @ + 1]
    /\ ret' = MemRet("chat", TRUE)
    /\ UNCHANGED <<runtimeVars, memVars, apiVars>>

\* the task spawned by chat: one execute_chat, the update of the metrics,
\* and health Healthy, or Degraded when the request failed
ChatTask(ok) ==
    /\ conn.chats > 0
    /\ conn' = [conn EXCEPT
                   !.chats = @ - 1,
                   !.metrics["ollama"] =
                       IF ok THEN UpdateResponseTime(UpdateMetrics(@, TRUE))
                       ELSE UpdateMetrics(@, FALSE),
                   !.health["ollama"] = IF ok THEN "Healthy" ELSE "Degraded",
                   !.chat = [result |-> IF ok THEN "ok" ELSE "failed",
                             attempts |-> 1,
                             health |-> IF ok THEN "Healthy" ELSE "Degraded"]]
    /\ UNCHANGED <<runtimeVars, memVars, apiVars, budget, ret>>

\* OllamaConnector::embed: enter make_request
EmbedBegin ==
    /\ budget.calls > 0
    /\ conn.embed.pc = "idle"
    /\ budget' = [budget EXCEPT !.calls = @ - 1]
    /\ conn' = [conn EXCEPT !.embed = [pc |-> "try", retries |-> 0]]
    /\ ret' = NoRet
    /\ UNCHANGED <<runtimeVars, memVars, apiVars>>

\* one turn of the loop of make_request, which marks the connector
\* Unhealthy when it gives up; embed updates the metrics only when the
\* request succeeded, a failure returns through `?`
TryRequest(ok) ==
    /\ conn.embed.pc = "try"
    /\ LET retries == IF ok THEN conn.embed.retries ELSE conn.embed.retries + 1
           over == ok \/ Exhausted(retries, conn.max_retries)
       IN  /\ conn' = [conn EXCEPT
                          !.metrics["ollama"] =
                              IF ok THEN UpdateResponseTime(UpdateMetrics(@, TRUE))
                              ELSE @,
                          !.health["ollama"] = IF ~ok /\ over THEN "Unhealthy" ELSE @,
                          !.embed = IF over THEN [pc |-> "idle", retries |-> 0]
                                    ELSE [pc |-> "try", retries |-> retries]]
           /\ ret' = IF over THEN MemRet("embed", ok) ELSE NoRet
    /\ UNCHANGED <<runtimeVars, memVars, apiVars, budget>>

\* no connector in use
ConnIdle == conn = ConnNew(0, <<>>)

(***************************************************************************)
(* API: the rate limiter.                                                  *)
(***************************************************************************)

DefaultRequestsPerSecond == 100
DefaultBurstSize == 150

\* the clock of the model advances in half seconds, so that a refill can
\* fall short of one token
TicksPerSecond == 2

RateClients == {"a", "b"}
BurstSizes == {0, 1, 2}
\* u32 values of requests_per_second: none, one, the largest
RequestRates == {0, 1, TokenWrap - 1}

\* a float as u32: the fraction is dropped and the value saturates
AsU32(x) == IF x >= TokenWrap THEN TokenWrap - 1 ELSE x

\* now.duration_since(last_refill).unwrap_or(Duration::from_secs(0))
Elapsed(t, last) == IF t >= last THEN t - last ELSE 0

\* (elapsed.as_secs_f64() * requests_per_second as f64) as u32
RefillAmount(cfg, elapsed) ==
    AsU32((elapsed * cfg.requests_per_second) \div TicksPerSecond)

\* the bucket check_rate_limit finds or inserts for a client
ClientStateNew(cfg, t) == [tokens |-> cfg.burst_size, last_refill |-> t]
Entry(r, c, t) ==
    IF c \in DOMAIN r.clients THEN r.clients[c] ELSE ClientStateNew(r.config, t)

\* (state.tokens + refill_amount).min(burst_size) on u32
Refill(cfg, tokens, amount) ==
    IF (tokens + amount) % TokenWrap <= cfg.burst_size
    THEN (tokens + amount) % TokenWrap
    ELSE cfg.burst_size

\* the addition overflows u32
RefillOverflows(tokens, amount) == tokens + amount >= TokenWrap

NoRequest == [client |-> "", outcome |-> "none", pre |-> 0, amount |-> 0,
              post |-> 0, others |-> EmptyMap]

RateLimiterNew(cfg, checked) ==
    [config |-> cfg, clients |-> EmptyMap, checked |-> checked,
     last |-> NoRequest]

\* RateLimiter::check_rate_limit: the limiter afterwards; last.outcome is
\* "ok", "limited" or, in a build with overflow checks, "panic"
CheckRateLimit(r, c, t) ==
    LET e == Entry(r, c, t)
        amount == RefillAmount(r.config, Elapsed(t, e.last_refill))
        found == With(r.clients, c, e)
        note == [client |-> c, pre |-> e.tokens, amount |-> amount,
                 others |-> Without(r.clients, c)]
    IN  IF amount > 0 /\ RefillOverflows(e.tokens, amount) /\ r.checked
        THEN [r EXCEPT !.clients = found,
                       !.last = note @@ [outcome |-> "panic",
                                         post |-> e.tokens]]
        ELSE LET f == IF amount > 0
                      THEN [tokens |-> Refill(r.config, e.tokens, amount),
                            last_refill |-> t]
                      ELSE e
             IN  IF f.tokens = 0
                 THEN [r EXCEPT !.clients = With(r.clients, c, f),
                                !.last = note @@ [outcome |-> "limited",
                                                  post |-> f.tokens]]
                 ELSE [r EXCEPT !.clients =
                                    With(r.clients, c,
                                         [f EXCEPT !.tokens = @ - 1]),
                                !.last = note @@ [outcome |-> "ok",
                                                  post |-> f.tokens - 1]]

\* a request of client c arrives
RlCheck(c) ==
    /\ rl' = CheckRateLimit(rl, c, now)
    /\ UNCHANGED <<runtimeVars, memVars, conn, ret, budget>>

\* RateLimiter::reset_client
RlReset(c) ==
    /\ c \in DOMAIN rl.clients
    /\ rl' = [rl EXCEPT !.clients = Without(@, c),
                        !.last = [NoRequest EXCEPT !.client = c,
                                                   !.outcome = "reset"]]
    /\ UNCHANGED <<runtimeVars, memVars, conn, ret, budget>>

\* no rate limiter in use
ApiIdle ==
    rl = RateLimiterNew([requests_per_second |-> DefaultRequestsPerSecond,
                         burst_size |-> DefaultBurstSize], FALSE)

\* the memory subsystem, the connectors and the API before any use
InitMemory ==
    /\ RingIdle
    /\ BoardIdle
    /\ ConnIdle
    /\ ApiIdle

(***************************************************************************)
(* Specifications.                                                         *)
(***************************************************************************)
\* LoopGuard::default()
DefaultGuard == [max_iterations |-> DefaultMaxIterations,
                 max_messages_per_agent |-> DefaultMaxMessages,
                 max_execution_time_ms |-> DefaultMaxTimeMs]

LoopGuards == [max_iterations : 0..MaxIter \cup {DefaultMaxIterations},
               max_messages_per_agent : 0..MaxMsgs \cup {DefaultMaxMessages},
               max_execution_time_ms : {0, DefaultMaxTimeMs}]

NoBudget == [sends |-> 0, stops |-> 0, observes |-> 0,
             creates |-> 0, removes |-> 0, registers |-> 0, unregisters |-> 0,
             memops |-> 0, boardops |-> 0, calls |-> 0, inputs |-> {}]

\* the state after construction of registry, bus and orchestrator
InitBase ==
    /\ total_sent = 0
    /\ total_received = 0
    /\ readers = 0
    /\ running = FALSE
    /\ metrics = ZeroMetrics
    /\ st = [s \in Tasks |-> IdleStart]
    /\ qd = [c \in Callers |-> [pc |-> "idle", rem |-> {}, total |-> 0]]
    /\ bc = NoBroadcast
    /\ cmd = [op |-> "none", step |-> "none", id |-> NoAgent, cfg |-> DefaultConfig]
    /\ ret = NoRet
    /\ qdSums = {}
    /\ hist = [queued |-> ZeroCounts, sentSinceStart |-> FALSE, stopReq |-> FALSE,
               unreg |-> FALSE]

\* --- one mailbox, used directly (Mailbox::new) ---
MailboxInputs == {m \in Messages : m.to = 1 /\ m.from \in {External, 1}}

InitMailbox ==
    /\ InitBase
    /\ InitMemory
    /\ agents = EmptyMap
    /\ configs = EmptyMap
    /\ nextId = 1
    /\ mailboxes = [a \in {1} |-> <<>>]
    /\ loop_guard = DefaultGuard
    /\ budget = [NoBudget EXCEPT !.inputs = MailboxInputs]

NextMailbox ==
    \/ \E m \in budget.inputs : MbPush(1, m)
    \/ MbPop(1)
    \/ MbPeek(1)
    \/ MbClear(1)

SpecMailbox == InitMailbox /\ [][NextMailbox]_vars

\* --- the bus alone: producers, a consumer and an observer ---
BusInputs == {m \in Messages : m.from \in {External, 1} /\ m.to \in AgentIds
                               /\ m.priority \in {Normal, High}}

InitBus ==
    /\ InitBase
    /\ InitMemory
    /\ agents = EmptyMap
    /\ configs = EmptyMap
    /\ nextId = 1
    /\ mailboxes = EmptyMap
    /\ loop_guard = DefaultGuard
    /\ budget = [NoBudget EXCEPT !.sends = MaxSends, !.creates = MaxAgents,
                                 !.removes = 1, !.observes = 1,
                                 !.inputs = BusInputs]

NextBus ==
    \/ \E a \in AgentIds : CreateMailbox(a)
    \/ \E a \in AgentIds : RemoveMailbox(a)
    \/ \E m \in budget.inputs : Send(m)
    \/ \E m \in budget.inputs : BroadcastBegin(m)
    \/ BroadcastStep
    \/ BroadcastEnd
    \/ \E a \in AgentIds : MbPop(a)
    \/ ObserveBegin
    \/ QdStep(Observer)
    \/ ObserveEnd

SpecBus == InitBus /\ [][NextBus]_vars

\* --- the orchestrator over a fixed registry, with producers and stop() ---
OrchInputs == {m \in Messages : m.from = 1 /\ m.to \in AgentIds
                                /\ m.priority = Normal}

\* n agents registered, each with its mailbox (register, then create_mailbox)
Registered(n) ==
    /\ agents = [a \in 1..n |-> "Idle"]
    /\ configs \in [1..n -> Configs]
    /\ mailboxes = [a \in 1..n |-> <<>>]
    /\ nextId = n + 1

Init ==
    /\ InitBase
    /\ InitMemory
    /\ \E n \in 0..MaxAgents : Registered(n)
    /\ loop_guard \in LoopGuards
    /\ budget = [NoBudget EXCEPT !.sends = MaxSends, !.stops = 1,
                                 !.inputs = OrchInputs]

OrchNext(s) ==
    \/ Start(s)
    \/ Top(s)
    \/ Visit(s)
    \/ GetConfig(s)
    \/ Execute(s)
    \/ Finish(s)
    \/ LoopEnd(s)
    \/ QdStep(s)
    \/ Qd1End(s)
    \/ Check(s)
    \/ Qd2End(s)

Next ==
    \/ \E m \in budget.inputs : Send(m)
    \/ \E m \in budget.inputs : BroadcastBegin(m)
    \/ BroadcastStep
    \/ BroadcastEnd
    \/ Stop
    \/ \E s \in Starters : OrchNext(s)

Spec == Init /\ [][Next]_vars

\* --- the orchestrator as a task the runtime keeps polling, with one fewer
\* producer call beside it; the bus may hold mailboxes made by create_mailbox
\* for ids the registry does not know ---
LiveBase == [max_iterations |-> MaxIter + 1,
             max_messages_per_agent |-> DefaultMaxMessages,
             max_execution_time_ms |-> DefaultMaxTimeMs]

LiveGuards ==
    {[LiveBase EXCEPT !.max_iterations = i] : i \in 0..MaxIter + 1}
    \cup {[LiveBase EXCEPT !.max_messages_per_agent = MaxMsgs],
          [LiveBase EXCEPT !.max_execution_time_ms = 0]}

InitLive ==
    /\ InitBase
    /\ InitMemory
    /\ \E n \in 0..MaxAgents, k \in 0..MaxAgents :
          /\ n <= k
          /\ agents = [a \in 1..n |-> "Idle"]
          /\ \E c \in Configs : configs = [a \in 1..n |-> c]
          /\ mailboxes = [a \in 1..k |-> <<>>]
          /\ nextId = k + 1
    /\ loop_guard \in LiveGuards
    /\ budget = [NoBudget EXCEPT !.sends = MaxSends - 1, !.stops = 1,
                                 !.inputs = OrchInputs]

\* every step of start() is taken eventually: the runtime polls the task
LiveSpec == InitLive /\ [][Next]_vars /\ \A s \in Starters : WF_vars(OrchNext(s))

\* --- the commands register_agent and unregister_agent, with a producer and
\* the orchestrator running beside them ---
RegGuard == [max_iterations |-> MaxIter + 1,
             max_messages_per_agent |-> DefaultMaxMessages,
             max_execution_time_ms |-> DefaultMaxTimeMs]

InitReg ==
    /\ InitBase
    /\ InitMemory
    /\ \E n \in 0..MaxAgents : Registered(n)
    /\ loop_guard = RegGuard
    /\ budget = [NoBudget EXCEPT !.sends = MaxSends, !.registers = 1,
                                 !.unregisters = 1, !.inputs = OrchInputs]

NextReg ==
    \/ \E cfg \in Configs : RegisterAgents(cfg)
    \/ RegisterConfigs
    \/ RegisterMailbox
    \/ \E a \in AgentIds : UnregisterRegistry(a)
    \/ UnregisterMailbox
    \/ \E m \in budget.inputs : Send(m)
    \/ \E s \in Starters : OrchNext(s)

SpecReg == InitReg /\ [][NextReg]_vars

\* --- two start_orchestrator commands on the one Orchestrator, with a
\* producer and stop() ---
InitTwo ==
    /\ InitBase
    /\ InitMemory
    /\ \E n \in 0..MaxAgents : Registered(n)
    /\ loop_guard = RegGuard
    /\ budget = [NoBudget EXCEPT !.sends = MaxSends - 1, !.stops = 1,
                                 !.inputs = OrchInputs]

NextTwo ==
    \/ \E m \in budget.inputs : Send(m)
    \/ Stop
    \/ \E s \in Tasks : OrchNext(s)

SpecTwo == InitTwo /\ [][NextTwo]_vars

\* the runtime with nothing registered: the memory subsystem is used alone
RuntimeIdle ==
    /\ InitBase
    /\ agents = EmptyMap
    /\ configs = EmptyMap
    /\ nextId = 1
    /\ mailboxes = EmptyMap
    /\ loop_guard = DefaultGuard

\* --- one RingBuffer, used directly and through add_to_agent ---
InitRing ==
    /\ RuntimeIdle
    /\ ApiIdle
    /\ BoardIdle
    /\ ConnIdle
    /\ \E cap \in Capacities, checked \in BOOLEAN : rb = RingBufferNew(cap, checked)
    /\ add = NoAdd
    /\ budget = [NoBudget EXCEPT !.memops = MaxMemOps]

NextRing ==
    \/ \E e \in MemoryEntries : RbPush(e)
    \/ \E e \in MemoryEntries : RbSummarize(e)
    \/ RbClear
    \/ \E e \in MemoryEntries : AddPush(e)
    \/ AddCheck
    \/ AddGetAll
    \/ AddSummarize

SpecRing == InitRing /\ [][NextRing]_vars

\* --- pushes only ---
NextPush ==
    \/ \E e \in MemoryEntries : RbPush(e)

SpecPush == InitRing /\ [][NextPush]_vars

\* --- a sequence of add_to_agent calls on a buffer made by
\* create_agent_buffer ---
NextAdd ==
    \/ \E e \in MemoryEntries : AddPush(e)
    \/ AddCheck
    \/ AddGetAll
    \/ AddSummarize

SpecAdd == InitRing /\ [][NextAdd]_vars

\* --- the Blackboard under put, get, remove and a clock ---
InitBoard ==
    /\ RuntimeIdle
    /\ ApiIdle
    /\ RingIdle
    /\ ConnIdle
    /\ \E max \in 0..MaxBoard : bb = BlackboardNew(max)
    /\ now = 0
    /\ bbh = NoBoardHist
    /\ budget = [NoBudget EXCEPT !.boardops = MaxBoardOps]

NextBoard ==
    \/ \E k \in Keys, v \in Values, ttl \in Lifetimes : BbPut(k, v, ttl)
    \/ \E k \in Keys : BbGet(k)
    \/ \E k \in Keys : BbRemove(k)
    \/ Tick

SpecBoard == InitBoard /\ [][NextBoard]_vars

\* --- the three connectors under execute, chat and embed calls ---
InitConn ==
    /\ RuntimeIdle
    /\ ApiIdle
    /\ RingIdle
    /\ BoardIdle
    /\ \E r \in {0, 1, MaxRetries + 1} : conn = ConnNew(r, <<>>)
    /\ budget = [NoBudget EXCEPT !.calls = MaxCalls]

NextConn ==
    \/ \E c \in CliConnectors : ExecuteBegin(c)
    \/ \E c \in CliConnectors, outcome \in Outcomes : TryExecute(c, outcome)
    \/ Chat
    \/ \E ok \in BOOLEAN : ChatTask(ok)
    \/ EmbedBegin
    \/ \E ok \in BOOLEAN : TryRequest(ok)

SpecConn == InitConn /\ [][NextConn]_vars

\* --- one execute call on a subprocess connector whose children print a
\* script of up to MaxLines lines ---
Scripts == UNION {[1..n -> Lines] : n \in 0..MaxLines}

InitStream ==
    /\ RuntimeIdle
    /\ ApiIdle
    /\ RingIdle
    /\ BoardIdle
    /\ \E r \in {0, 1, MaxRetries + 1}, script \in Scripts : conn = ConnNew(r, script)
    /\ budget = [NoBudget EXCEPT !.calls = 1]

NextStream ==
    \/ \E c \in CliConnectors : ExecuteBegin(c)
    \/ \E c \in CliConnectors, outcome \in Outcomes : TryExecute(c, outcome)

SpecStream == InitStream /\ [][NextStream]_vars

\* the rate limiter under requests of two clients while time passes
InitRate ==
    /\ RuntimeIdle
    /\ RingIdle
    /\ BoardIdle
    /\ ConnIdle
    /\ \E rps \in RequestRates, burst \in BurstSizes, checked \in BOOLEAN :
           rl = RateLimiterNew([requests_per_second |-> rps,
                                burst_size |-> burst], checked)
    /\ budget = NoBudget

NextRate ==
    \/ \E c \in RateClients : RlCheck(c)
    \/ \E c \in RateClients : RlReset(c)
    \/ Tick

SpecRate == InitRate /\ [][NextRate]_vars

\* configurations whose attempts always fail or may fail, with every
\* number of retries up to the bound
RetryConfigs == [max_retries : 0..MaxRetries, timeout_ms : {0, WorkMs}]

\* the orchestrator with agents of such configurations
InitRetry ==
    /\ InitBase
    /\ InitMemory
    /\ \E n \in 1..MaxAgents :
          /\ agents = [a \in 1..n |-> "Idle"]
          /\ configs \in [1..n -> RetryConfigs]
          /\ mailboxes = [a \in 1..n |-> <<>>]
          /\ nextId = n + 1
    /\ loop_guard = RegGuard
    /\ budget = [NoBudget EXCEPT !.sends = MaxSends, !.stops = 1,
                                 !.inputs = OrchInputs]

SpecRetry == InitRetry /\ [][Next]_vars

\* limits that hold at once, and limits reached only after some work
OrderGuards == [max_iterations : {0, MaxIter + 1},
                max_messages_per_agent : {0, MaxMsgs},
                max_execution_time_ms : {0, DefaultMaxTimeMs}]

\* the loop under such limits while agents are registered and unregistered
InitOrder ==
    /\ InitBase
    /\ InitMemory
    /\ \E n \in 0..MaxAgents : Registered(n)
    /\ loop_guard \in OrderGuards
    /\ budget = [NoBudget EXCEPT !.sends = MaxSends, !.registers = 1,
                                 !.unregisters = 1, !.stops = 1,
                                 !.inputs = OrchInputs]

NextOrder ==
    \/ \E cfg \in Configs : RegisterAgents(cfg)
    \/ RegisterConfigs
    \/ RegisterMailbox
    \/ \E a \in AgentIds : UnregisterRegistry(a)
    \/ UnregisterMailbox
    \/ \E m \in budget.inputs : Send(m)
    \/ Stop
    \/ \E s \in Starters : OrchNext(s)

SpecOrder == InitOrder /\ [][NextOrder]_vars

\* a bus with a mailbox for every agent, under broadcasts and
\* get_queue_depth commands only
InitDepth ==
    /\ InitBase
    /\ InitMemory
    /\ agents = EmptyMap
    /\ configs = EmptyMap
    /\ nextId = 1
    /\ mailboxes = [a \in AgentIds |-> <<>>]
    /\ loop_guard = DefaultGuard
    /\ budget = [NoBudget EXCEPT !.sends = MaxSends, !.observes = MaxSends,
                                 !.inputs = BusInputs]

NextDepth ==
    \/ \E m \in budget.inputs : BroadcastBegin(m)
    \/ BroadcastStep
    \/ BroadcastEnd
    \/ ObserveBegin
    \/ QdStep(Observer)
    \/ ObserveEnd

SpecDepth == InitDepth /\ [][NextDepth]_vars

\* children that print as many content lines as the channel holds, one
\* less, one more, or none
LineCounts == {0, ChannelCapacity - 1, ChannelCapacity, ChannelCapacity + 1}

InitChannel ==
    /\ RuntimeIdle
    /\ ApiIdle
    /\ RingIdle
    /\ BoardIdle
    /\ \E r \in {0, 1, MaxRetries + 1}, n \in LineCounts :
           conn = ConnNew(r, [i \in 1..n |-> Goodbye])
    /\ budget = [NoBudget EXCEPT !.calls = MaxCalls]

SpecChannel == InitChannel /\ [][NextStream]_vars

\* register, AgentRegistry::unregister, send, broadcast and the loop; no
\* mailbox is removed or cleared and only the loop pops
InitConserve ==
    /\ InitBase
    /\ InitMemory
    /\ \E n \in 1..MaxAgents : Registered(n)
    /\ loop_guard = RegGuard
    /\ budget = [NoBudget EXCEPT !.sends = MaxSends, !.registers = 1,
                                 !.unregisters = 1, !.inputs = OrchInputs]

NextConserve ==
    \/ \E cfg \in Configs : RegisterAgents(cfg)
    \/ RegisterConfigs
    \/ RegisterMailbox
    \/ \E a \in AgentIds : RegistryUnregister(a)
    \/ \E m \in budget.inputs : Send(m)
    \/ \E m \in budget.inputs : BroadcastBegin(m)
    \/ BroadcastStep
    \/ BroadcastEnd
    \/ \E s \in Starters : OrchNext(s)

SpecConserve == InitConserve /\ [][NextConserve]_vars

StopReasons == {"Completed", "MaxIterations", "MaxMessagesPerAgent",
                "MaxExecutionTime", "AgentError", "ManualStop"}

RECURSIVE SumOver(_, _)
SumOver(f, S) ==
    IF S = {} THEN 0
    ELSE LET a == CHOOSE x \in S : TRUE IN f[a] + SumOver(f, S \ {a})

(***************************************************************************)
(* C2: during a call of start() no agent's messages_per_agent exceeds      *)
(* max_messages_per_agent and no more than max_iterations passes are       *)
(* begun; with either limit 0 no message is popped.                        *)
(***************************************************************************)
C2_GuardsBound ==
    \A s \in Starters :
        /\ \A a \in AgentIds :
              metrics.messages_per_agent[a] <= loop_guard.max_messages_per_agent
        /\ st[s].passes <= loop_guard.max_iterations
        /\ (loop_guard.max_messages_per_agent = 0 \/ loop_guard.max_iterations = 0)
              => st[s].pops = 0

\* an agent has reached a positive limit while a message for it is still
\* queued, in the last pass the iteration limit allows
C2_Witness ==
    \E a \in DOMAIN mailboxes :
        /\ loop_guard.max_messages_per_agent > 0
        /\ metrics.messages_per_agent[a] = loop_guard.max_messages_per_agent
        /\ Len(mailboxes[a]) > 0
        /\ st[1].passes = loop_guard.max_iterations

C6_RegistryMatchesBus ==
    /\ DOMAIN agents = DOMAIN mailboxes
    /\ DOMAIN configs = DOMAIN agents

(***************************************************************************)
(* C10: once stop() was called during a run, the loop begins no further    *)
(* pass: the next step from the top of the loop returns ManualStop.        *)
(***************************************************************************)
C10_StopHonoured ==
    [][\A s \in Starters :
          (hist.stopReq /\ st[s].pc = "top") =>
              \/ st'[s].pc = "top"
              \/ st'[s].pc = "done" /\ st'[s].result.reason = "ManualStop"]_vars

\* stop() came while a pass was in progress, and start() returned ManualStop
C10_Witness ==
    /\ hist.stopReq
    /\ st[1].pc = "done"
    /\ st[1].result.reason = "ManualStop"
    /\ st[1].passes >= 1

(***************************************************************************)
(* C7: send to a recipient without a mailbox returns an error and leaves   *)
(* total_sent, total_received and every mailbox as they were; send to a    *)
(* recipient with a mailbox adds exactly that message to that mailbox and  *)
(* to no other, and adds exactly 1 to total_sent.                          *)
(***************************************************************************)
C7_SendEffect ==
    [][ret'.op = "send" =>
        LET m == ret'.msg IN
        /\ ret'.ok = (m.to \in DOMAIN mailboxes)
        /\ total_received' = total_received
        /\ DOMAIN mailboxes' = DOMAIN mailboxes
        /\ IF ret'.ok
           THEN /\ total_sent' = total_sent + 1
                /\ \A a \in DOMAIN mailboxes \ {m.to} : mailboxes'[a] = mailboxes[a]
                /\ Len(mailboxes'[m.to]) = Len(mailboxes[m.to]) + 1
                /\ \A v \in Messages :
                      Count(mailboxes'[m.to], v) =
                          Count(mailboxes[m.to], v) + (IF v = m THEN 1 ELSE 0)
           ELSE /\ total_sent' = total_sent
                /\ mailboxes' = mailboxes]_vars

\* a send to a missing recipient has failed after a send that was delivered
C7_Witness ==
    /\ ret.op = "send"
    /\ ~ret.ok
    /\ total_sent = 1
    /\ TotalQueued(mailboxes) = 1

(***************************************************************************)
(* C8: broadcast pushes one copy of the message, addressed to the          *)
(* recipient, into every mailbox but the sender's, returns their number k  *)
(* and adds k to total_sent; no mailbox is created or removed while it     *)
(* runs.                                                                   *)
(***************************************************************************)
C8_BroadcastEffect ==
    [][/\ (bc.active /\ bc'.active) => DOMAIN mailboxes' = bc.atStart
       /\ (bc.active /\ bc'.active /\ bc'.rem # bc.rem) =>
            \E a \in bc.rem :
                /\ bc'.rem = bc.rem \ {a}
                /\ \A b \in DOMAIN mailboxes \ {a} : mailboxes'[b] = mailboxes[b]
                /\ IF a = bc.msg.from
                   THEN mailboxes'[a] = mailboxes[a]
                   ELSE \A v \in Messages :
                          Count(mailboxes'[a], v) =
                              Count(mailboxes[a], v)
                              + (IF v = [bc.msg EXCEPT !.to = a] THEN 1 ELSE 0)
       /\ ret'.op = "broadcast" =>
            /\ bc.done = DOMAIN mailboxes \ {bc.msg.from}
            /\ ret'.n = Cardinality(DOMAIN mailboxes \ {bc.msg.from})
            /\ total_sent' = total_sent + ret'.n
            /\ mailboxes' = mailboxes]_vars

\* a broadcast of an agent that has a mailbox itself has reached the one
\* other mailbox
C8_Witness ==
    /\ ret.op = "broadcast"
    /\ ret.n = 1
    /\ ret.msg.from \in DOMAIN mailboxes
    /\ Cardinality(DOMAIN mailboxes) = 2

(***************************************************************************)
(* C9: the value queue_depth() returns is the sum of the lengths of all    *)
(* mailboxes at some instant during the call.                              *)
(***************************************************************************)
C9_QueueDepthIsSnapshot ==
    ret.op = "queue_depth" => ret.n \in qdSums

(***************************************************************************)
(* C3: pop() and peek() never return a message of strictly lower priority  *)
(* than a message still queued in the same mailbox.                        *)
(***************************************************************************)
C3_PopIsMax ==
    (ret.op \in {"pop", "peek"} /\ ret.ok) =>
        \A i \in DOMAIN mailboxes[ret.agent] :
            mailboxes[ret.agent][i].priority <= ret.msg.priority

\* after pushes of Low, High and Normal a pop has returned High, and Normal
\* and Low are still queued
C3_Witness ==
    /\ ret.op = "pop"
    /\ ret.msg.priority = High
    /\ Len(mailboxes[1]) = 2
    /\ {mailboxes[1][i].priority : i \in DOMAIN mailboxes[1]} = {Low, Normal}

(***************************************************************************)
(* C1: a call of start() eventually returns, and what it returns is one of *)
(* the six stop reasons.                                                   *)
(***************************************************************************)
C1_StartReturns ==
    \A s \in Starters :
        /\ [](st[s].pc = "done" => st[s].result.reason \in StopReasons)
        /\ (st[s].pc # "idle") ~> (st[s].pc = "done")

\* start() has returned MaxIterations after passes that could not empty the
\* bus: a message is still queued
C1_Witness ==
    /\ st[1].pc = "done"
    /\ st[1].result.reason = "MaxIterations"
    /\ st[1].passes >= 1
    /\ TotalQueued(mailboxes) > 0

(***************************************************************************)
(* C11: at most one scheduling loop is active on an Orchestrator: no two   *)
(* start() calls are inside a pass at the same time.                       *)
(***************************************************************************)
InPass(s) == st[s].pc \in {"loop", "config", "exec", "finish"}

C11_OneLoop ==
    \A s, t \in Tasks : (InPass(s) /\ InPass(t)) => s = t

(***************************************************************************)
(* C12: a message that has exhausted its retries leaves                    *)
(* messages_per_agent, total_messages and the bus's total_received as they *)
(* were: the three counters move only for a message that succeeded.        *)
(***************************************************************************)
C12_CountOnlySuccess ==
    [][\A s \in Starters :
          (st[s].pc = "finish" /\ ~st[s].ok /\ st'[s].pc # "finish") =>
              /\ metrics'.messages_per_agent = metrics.messages_per_agent
              /\ metrics'.total_messages = metrics.total_messages
              /\ total_received' = total_received]_vars

C14_MutationsKeepBound ==
    (ret.op \in {"rb_push", "rb_summarize", "rb_clear", "add_to_agent"} /\ ret.ok) =>
        /\ rb.total_tokens <= rb.capacity
        /\ rb.total_entries = Len(rb.entries)

(***************************************************************************)
(* C15: after add_to_agent calls during which summarization was triggered, *)
(* summarization_count is above 0 and total_tokens is below the capacity.  *)
(***************************************************************************)
C15_SummarizedBelowCapacity ==
    (ret.op = "add_to_agent" /\ ret.ok /\ add.triggered) =>
        /\ rb.summarization_count > 0
        /\ rb.total_tokens < rb.capacity

(***************************************************************************)
(* C16: after every put the blackboard holds at most max_entries entries.  *)
(***************************************************************************)
C16_PutKeepsMax ==
    bbh.op = "put" => Size(bb.entries) <= bb.max_entries

(***************************************************************************)
(* C17: a get of a key whose entry has expired removes the entry, records  *)
(* a miss and returns none; and no get returns an entry that had expired   *)
(* with no put of its key since.                                           *)
(***************************************************************************)
C17_ExpiredGetRemoves ==
    bbh.op = "get" =>
        /\ (bbh.key \in DOMAIN bbh.pre.entries
                /\ Lapsed(bbh.pre.entries[bbh.key], now)) =>
               /\ bbh.key \notin DOMAIN bb.entries
               /\ bb.stats.miss_count = bbh.pre.stats.miss_count + 1
               /\ bbh.got = <<>>
        /\ bbh.key \in bbh.dead => bbh.got = <<>>

\* a get found its key stored and expired
C17_Witness ==
    /\ bbh.op = "get"
    /\ bb.max_entries > 0
    /\ bbh.key \in DOMAIN bbh.pre.entries
    /\ Lapsed(bbh.pre.entries[bbh.key], now)
    /\ bbh.got = <<>>
    /\ bb.stats.miss_count = 1

(***************************************************************************)
(* C18: a put purges every expired entry; a put of a new key that then     *)
(* finds max_entries or more entries evicts exactly one of them, one with  *)
(* the smallest last_accessed, and adds 1 to eviction_count; any other put *)
(* evicts nothing.                                                         *)
(***************************************************************************)
C18_PutEvictsLru ==
    bbh.op = "put" =>
        LET pre == bbh.pre.entries
            live == {k \in DOMAIN pre : ~Lapsed(pre[k], now)}
            gone == live \ DOMAIN bb.entries
        IN  /\ DOMAIN bb.entries \subseteq live \cup {bbh.key}
            /\ bbh.key \in DOMAIN bb.entries
            /\ IF bbh.key \notin live /\ Cardinality(live) >= bb.max_entries
               THEN /\ Cardinality(gone) = 1
                    /\ \A g \in gone : \A k \in live :
                          pre[g].last_accessed <= pre[k].last_accessed
                    /\ bb.stats.eviction_count = bbh.pre.stats.eviction_count + 1
               ELSE /\ gone = {}
                    /\ bb.stats.eviction_count = bbh.pre.stats.eviction_count

(***************************************************************************)
(* C19: a get that follows the put of a freshly created entry, with no     *)
(* other get of the key in between, returns the value that was put and     *)
(* access_count = 1.                                                       *)
(***************************************************************************)
C19_PutGetOnce ==
    (bbh.op = "get" /\ bbh.fresh # <<>> /\ bbh.got # <<>>) =>
        /\ bbh.got[1].value = bbh.fresh[1]
        /\ bbh.got[1].access_count = 1

(***************************************************************************)
(* C20: in every state, for each connector,                                *)
(* spawn_count = success_count + error_count.                              *)
(***************************************************************************)
C20_SpawnIsSuccessPlusError ==
    \A c \in Connectors :
        conn.metrics[c].spawn_count
            = conn.metrics[c].success_count + conn.metrics[c].error_count

\* execute has failed and succeeded, chat has failed, and an embed request
\* has failed without a count
C20_Witness ==
    /\ conn.metrics["claude_code"].error_count > 0
    /\ conn.metrics["claude_code"].success_count > 0
    /\ conn.metrics["ollama"].error_count > 0
    /\ ret.op = "embed"
    /\ ~ret.ok

(***************************************************************************)
(* C21: execute() with max_retries = N keeps making attempts while none    *)
(* has succeeded and the retry counter is below N (the first attempt is    *)
(* made whatever N is); a success returns with health Healthy; when a      *)
(* failure brings the counter to N it returns the error with health        *)
(* Unhealthy; the sleep after the k-th failure is 100 * 2^(k-1) ms; every  *)
(* attempt adds 1 to spawn_count.                                          *)
(***************************************************************************)
C21_ExecuteRetries ==
    \A c \in CliConnectors :
        LET x == conn.exec[c]
            N == conn.max_retries
        IN  /\ x.pc = "ok" => conn.health[c] = "Healthy"
            /\ x.pc = "err" =>
                   /\ conn.health[c] = "Unhealthy"
                   /\ x.retries >= N
                   /\ x.attempts = x.retries
                   /\ N >= 1 => x.retries = N
            /\ x.pc = "try" =>
                   /\ x.retries = 0 \/ x.retries < N
                   /\ Len(x.slept) = x.retries
            /\ \A k \in 1..Len(x.slept) : x.slept[k] = 100 * 2 ^ (k - 1)
            /\ conn.metrics[c].spawn_count = x.spawn0 + x.attempts

\* an execute with max_retries above 2 slept twice and then returned the
\* error; another one succeeded after a failure
C21_Witness ==
    /\ conn.exec["claude_code"].pc = "err"
    /\ Len(conn.exec["claude_code"].slept) >= 2
    /\ conn.exec["codex_cli"].pc = "ok"
    /\ conn.exec["codex_cli"].retries = 1

(***************************************************************************)
(* C22: a chat() whose request failed has made as many attempts as         *)
(* max_retries allows and has marked the connector Unhealthy; a chat whose *)
(* request succeeded has marked it Healthy.                                *)
(***************************************************************************)
C22_ChatRetries ==
    /\ conn.chat.result = "failed" =>
           /\ conn.chat.attempts >= conn.max_retries
           /\ conn.chat.health = "Unhealthy"
    /\ conn.chat.result = "ok" => conn.chat.health = "Healthy"

(***************************************************************************)
(* C23: the stream returned by a successful execute() holds exactly one    *)
(* Done event, and it is the last event.                                   *)
(***************************************************************************)
C23_OneDoneLast ==
    \A c \in CliConnectors :
        conn.exec[c].pc = "ok" =>
            LET stream == conn.exec[c].stream IN
            /\ Cardinality({i \in 1..Len(stream) : stream[i] = Done}) = 1
            /\ stream[Len(stream)] = Done

(***************************************************************************)
(* C24: a stdout line "<input|prompt>: N tokens, <output|completion>: M    *)
(* tokens" becomes Usage(N, M): an execute() that succeeded at once on a   *)
(* child printing such lines, JSON content lines and plain lines emits the *)
(* matching Usage and Content events in order, then Done.                  *)
(***************************************************************************)
C24_UsageLineParsed ==
    \A c \in CliConnectors :
        LET x == conn.exec[c]
            usage == {UsageSpaced(kin, kout) :
                        kin \in {"input", "prompt"}, kout \in {"output", "completion"}}
            event(line) == IF line \in usage THEN Usage(75, 30)
                           ELSE IF line = JsonHi THEN Content(<<"hi">>)
                           ELSE Content(line)
        IN  (/\ x.pc = "ok"
             /\ x.attempts = 1
             /\ \A i \in 1..Len(conn.script) :
                    conn.script[i] \in usage \cup {JsonHi, Goodbye})
            => x.stream = [i \in 1..Len(conn.script) |-> event(conn.script[i])] \o <<Done>>

(***************************************************************************)
(* C25: after execute() has returned, no child of a timed-out attempt is   *)
(* still running.                                                          *)
(***************************************************************************)
C25_NoChildLeft ==
    \A c \in CliConnectors :
        conn.exec[c].pc \in {"ok", "err"} => conn.exec[c].orphans = 0

\* the tokens of the last request's bucket after a refill by the elapsed
\* time times the rate, capped at burst_size
C26_After ==
    IF rl.last.pre + rl.last.amount <= rl.config.burst_size
    THEN rl.last.pre + rl.last.amount
    ELSE rl.config.burst_size

\* C26: the rate limiter is a token bucket per client.  In every state a
\* client's tokens are at most burst_size.  With the bucket refilled by the
\* elapsed time times the rate, capped at burst_size, a request is rejected
\* exactly when the refilled bucket is empty and admitted otherwise; an
\* admitted request leaves one token less than the refilled bucket held, a
\* rejected one leaves the tokens as they were, and the buckets of the other
\* clients are not touched.
C26_TokenBucket ==
    /\ \A c \in DOMAIN rl.clients :
           rl.clients[c].tokens <= rl.config.burst_size
    /\ rl.last.outcome \in {"ok", "limited", "panic"} =>
           /\ (rl.last.outcome = "limited") <=> (C26_After = 0)
           /\ (rl.last.outcome = "ok") <=> (C26_After > 0)
           /\ rl.last.outcome = "ok" => rl.last.post = C26_After - 1
           /\ rl.last.outcome = "limited" => rl.last.post = rl.last.pre
           /\ rl.clients[rl.last.client].tokens = rl.last.post
           /\ Without(rl.clients, rl.last.client) = rl.last.others

(***************************************************************************)
(* C27: unregister(id) returns true exactly when id was registered, and    *)
(* afterwards the registry holds neither metadata nor a configuration for  *)
(* id; it takes exactly that agent away, so that a register followed by    *)
(* the unregister of the new id restores the count; for an unknown id it   *)
(* returns false and changes nothing.  register adds exactly one agent     *)
(* under a fresh id.                                                       *)
(***************************************************************************)
C27_UnregisterExact ==
    [][/\ budget'.unregisters < budget.unregisters =>
            LET removed == cmd'.op = "unregister"
                id == IF removed THEN cmd'.id ELSE ret'.agent
            IN  /\ removed <=> id \in DOMAIN agents
                /\ ~removed => ret' = Ret("unregister_agent", id, NoMsg, 0, FALSE)
                /\ id \notin DOMAIN agents'
                /\ id \notin DOMAIN configs'
                /\ DOMAIN agents' = DOMAIN agents \ {id}
                /\ DOMAIN configs' = DOMAIN configs \ {id}
                /\ \A a \in DOMAIN agents' : agents'[a] = agents[a]
                /\ \A a \in DOMAIN configs' : configs'[a] = configs[a]
                /\ Cardinality(DOMAIN agents') =
                       Cardinality(DOMAIN agents) - (IF removed THEN 1 ELSE 0)
       /\ budget'.registers < budget.registers =>
            /\ cmd'.id \notin DOMAIN agents
            /\ DOMAIN agents' = DOMAIN agents \cup {cmd'.id}
            /\ Cardinality(DOMAIN agents') = Cardinality(DOMAIN agents) + 1]_vars

\* the agent that was registered last has been unregistered, and the
\* registry is as large as it was before the two calls
C27_Witness ==
    /\ budget.registers = 0
    /\ budget.unregisters = 0
    /\ cmd.op = "unregister"
    /\ cmd.id = nextId - 1
    /\ Cardinality(DOMAIN agents) = nextId - 2
    /\ cmd.id \notin DOMAIN configs

(***************************************************************************)
(* C28: the retry wrapper calls execute_message until an attempt succeeds  *)
(* or the count of failed attempts reaches max_retries (one attempt is     *)
(* made even when max_retries is 0).  start() returns AgentError for the   *)
(* agent exactly when the wrapper gave up; then error_count has grown by   *)
(* 1 and retry_count by the number of attempts less one, the agent's       *)
(* status is Failed and the message is not back in a mailbox.  After a     *)
(* success the status is Idle, error_count is as it was and retry_count    *)
(* has grown by the number of failed attempts.                             *)
(***************************************************************************)
C28_RetryThenAgentError ==
    [][\A s \in Starters :
          /\ (st[s].pc = "exec" /\ st'[s] # st[s]) =>
                /\ st[s].retries < st[s].cfg.max_retries \/ st[s].retries = 0
                /\ mailboxes' = mailboxes
          /\ (st[s].pc = "finish" /\ st'[s].pc # "finish") =>
                LET a == st[s].cur
                    n == st[s].cfg.max_retries
                    failed == st[s].retries
                    gaveUp == /\ st'[s].pc = "done"
                              /\ st'[s].result = Reason("AgentError", a, 0)
                IN  /\ gaveUp <=> ~st[s].ok
                    /\ mailboxes' = mailboxes
                    /\ IF st[s].ok
                       THEN /\ failed < n \/ failed = 0
                            /\ metrics'.error_count = st[s].errors0
                            /\ metrics'.retry_count = st[s].retried0 + failed
                            /\ a \in DOMAIN agents => agents'[a] = "Idle"
                       ELSE /\ failed = (IF n = 0 THEN 1 ELSE n)
                            /\ metrics'.error_count = st[s].errors0 + 1
                            /\ metrics'.retry_count =
                                   st[s].retried0 + failed - 1
                            /\ a \in DOMAIN agents => agents'[a] = "Failed"]_vars

\* start() has returned AgentError after a second message failed all its
\* attempts, the first having succeeded after a retry
C28_Witness ==
    /\ st[1].pc = "done"
    /\ st[1].result.reason = "AgentError"
    /\ metrics.error_count = 1
    /\ metrics.retry_count = MaxRetries
    /\ metrics.total_messages = 2
    /\ agents[st[1].result.agent] = "Failed"

(***************************************************************************)
(* C29: at the top of every iteration start() tests, in this order, the    *)
(* running flag, the iteration limit, the elapsed time and whether the     *)
(* registry is empty, and returns the reason of the first test that holds  *)
(* (ManualStop, MaxIterations, MaxExecutionTime, Completed) without a pop; *)
(* only if none holds does it visit the agents.  For each agent it tests   *)
(* the message limit before the pop: at the limit it returns               *)
(* MaxMessagesPerAgent with that agent and its count and pops nothing,     *)
(* and it pops from an agent's mailbox only below the limit.               *)
(***************************************************************************)
C29_StopOrder ==
    [][\A s \in Starters :
          /\ (st[s].pc = "top" /\ st'[s] # st[s]) =>
                LET stopped(r) == /\ st'[s].pc = "done"
                                  /\ st'[s].result = Reason(r, NoAgent, 0)
                IN  /\ mailboxes' = mailboxes
                    /\ IF ~running THEN stopped("ManualStop")
                       ELSE IF st[s].iterations >= loop_guard.max_iterations
                       THEN stopped("MaxIterations")
                       ELSE IF st[s].elapsed >= loop_guard.max_execution_time_ms
                       THEN stopped("MaxExecutionTime")
                       ELSE IF DOMAIN agents = {}
                       THEN stopped("Completed")
                       ELSE st'[s].pc = "loop" /\ st'[s].todo = DOMAIN agents
          /\ (st[s].pc = "loop" /\ st'[s].pc = "done") =>
                LET r == st'[s].result IN
                /\ r.reason = "MaxMessagesPerAgent"
                /\ r.agent \in st[s].todo
                /\ r.count = metrics.messages_per_agent[r.agent]
                /\ r.count >= loop_guard.max_messages_per_agent
                /\ mailboxes' = mailboxes
          /\ (st[s].pc = "loop" /\ st'[s] # st[s] /\ mailboxes' # mailboxes) =>
                LET a == st'[s].cur IN
                /\ a \in st[s].todo
                /\ metrics.messages_per_agent[a] <
                       loop_guard.max_messages_per_agent
                /\ \A b \in DOMAIN mailboxes \ {a} :
                       mailboxes'[b] = mailboxes[b]]_vars

\* start() has returned Completed on an empty registry while a mailbox
\* still holds a message, with no limit reached
C29_Witness ==
    /\ st[1].pc = "done"
    /\ st[1].result.reason = "Completed"
    /\ DOMAIN agents = {}
    /\ TotalQueued(mailboxes) > 0
    /\ st[1].pops = 0
    /\ loop_guard.max_iterations > 0
    /\ loop_guard.max_execution_time_ms > 0

(***************************************************************************)
(* C30: the buffer evicts oldest first.  After any sequence of pushes the  *)
(* entries stored are the last entries pushed, in the order of the pushes, *)
(* and eviction_count is the number of entries pushed that are no longer   *)
(* stored.                                                                 *)
(***************************************************************************)
C30_OldestFirst ==
    LET n == Len(rb.pushed)
        k == Len(rb.entries)
    IN  /\ k <= n
        /\ rb.entries = SubSeq(rb.pushed, n - k + 1, n)
        /\ rb.eviction_count = n - k

(***************************************************************************)
(* C31: whenever a connector has recomputed avg_response_time_ms, the n it *)
(* divided by was at least 1.                                              *)
(***************************************************************************)
C31_DivisorPositive ==
    \A c \in Connectors :
        conn.metrics[c].avg_n # <<>> => conn.metrics[c].avg_n[1] >= 1

\* the least and the largest sum of mailbox lengths that existed during the
\* observer's last queue_depth() call
C32_Low == CHOOSE x \in qdSums : \A y \in qdSums : x <= y
C32_High == CHOOSE x \in qdSums : \A y \in qdSums : x >= y

(***************************************************************************)
(* C32: queue_depth() is not atomic with respect to broadcast.  A          *)
(* queue_depth() call that runs while broadcasts push their copies returns *)
(* a value between the least and the largest total that existed during the *)
(* call, and it can return a value that holds some but not all of the      *)
(* copies of one broadcast to two recipients (the witness).                *)
(***************************************************************************)
C32_DepthBetween ==
    ret.op = "queue_depth" => (C32_Low <= ret.n /\ ret.n <= C32_High)

\* the only broadcast, from a sender without a mailbox, has pushed its two
\* copies and returned; the queue_depth() call that ran meanwhile returns 1
C32_Witness ==
    /\ ret.op = "queue_depth"
    /\ ret.n = 1
    /\ budget.sends = MaxSends - 1
    /\ ~bc.active
    /\ total_sent = 2
    /\ TotalQueued(mailboxes) = 2
    /\ budget.observes = MaxSends - 1

(***************************************************************************)
(* C33: execute() returns for every child that prints a finite number of   *)
(* lines and exits: no call is ever left waiting for a task, or for its    *)
(* own Done, that waits for a free slot of the event channel.              *)
(***************************************************************************)
C33_NeverBlocked ==
    \A c \in CliConnectors : conn.exec[c].pc # "blocked"

(***************************************************************************)
(* C34: start() returns MaxMessagesPerAgent for an agent only when that    *)
(* agent still has a message queued at that moment.                        *)
(***************************************************************************)
C34_LimitOnlyWithBacklog ==
    [][\A s \in Starters :
          (/\ st[s].pc # "done"
           /\ st'[s].pc = "done"
           /\ st'[s].result.reason = "MaxMessagesPerAgent") =>
              /\ st'[s].result.agent \in DOMAIN mailboxes'
              /\ Len(mailboxes'[st'[s].result.agent]) > 0]_vars

\* no call is in progress on the registry, the bus or the orchestrator
C35_Quiescent ==
    /\ \A s \in Starters : st[s].pc \in {"idle", "done"}
    /\ ~bc.active
    /\ cmd.op = "none"

(***************************************************************************)
(* C35: messages are conserved.  While the loop is the only consumer and   *)
(* no mailbox is removed or cleared, at every quiescent point total_sent   *)
(* is total_received plus the number of messages queued.                   *)
(***************************************************************************)
C35_Conserved ==
    C35_Quiescent => total_sent = total_received + TotalQueued(mailboxes)

(***************************************************************************)
(* C36: after every put, get and remove the total_entries of the stats is  *)
(* the number of entries stored, and hit_count + miss_count is the number  *)
(* of get calls made.                                                      *)
(***************************************************************************)
C36_StatsMatchEntries ==
    bbh.op \in {"put", "get", "remove"} =>
        /\ bb.stats.total_entries = Size(bb.entries)
        /\ bb.stats.hit_count + bb.stats.miss_count = bbh.gets

\* the sum of token_count over a sequence of entries
RECURSIVE C37_Sum(_)
C37_Sum(es) == IF es = <<>> THEN 0 ELSE Head(es).token_count + C37_Sum(Tail(es))

(***************************************************************************)
(* C37: in every state of the RingBuffer total_tokens equals the sum of    *)
(* token_count over the entries stored: it never wraps and never goes out  *)
(* of step after push, summarize or clear.                                 *)
(***************************************************************************)
C37_TokensAreSum ==
    rb.total_tokens = C37_Sum(rb.entries)

(***************************************************************************)
(* C38: right after a push of e that returned, e is the last entry stored  *)
(* (get_recent(1) returns e), whatever its token_count.                    *)
(***************************************************************************)
C38_LastPushedKept ==
    (ret.op = "rb_push" /\ ret.ok) =>
        /\ rb.entries # <<>>
        /\ rb.entries[Len(rb.entries)] = rb.pushed[Len(rb.pushed)]

\* the tokens of the last request's bucket between the refill step and the
\* consumption of a token: an admitted request took one afterwards
C39_Refilled ==
    IF rl.last.outcome = "ok" THEN rl.last.post + 1 ELSE rl.last.post

(***************************************************************************)
(* C39: the refill step of check_rate_limit never lowers a client's        *)
(* tokens: after a refill they are min(burst_size, tokens before +         *)
(* refill_amount), computed without wrapping.                              *)
(***************************************************************************)
C39_RefillNeverLowers ==
    (rl.last.outcome \in {"ok", "limited"} /\ rl.last.amount > 0) =>
        /\ C39_Refilled >= rl.last.pre
        /\ C39_Refilled =
               IF rl.last.pre + rl.last.amount <= rl.config.burst_size
               THEN rl.last.pre + rl.last.amount
               ELSE rl.config.burst_size

(***************************************************************************)
(* C40: when start() returns, metrics.total_iterations is the number of    *)
(* scheduling passes completed in that run (the value of the local         *)
(* iterations counter at the return).                                      *)
(***************************************************************************)
C40_IterationsArePasses ==
    [][\A s \in Starters :
          (st[s].pc \notin {"idle", "done"} /\ st'[s].pc = "done") =>
              metrics'.total_iterations = st[s].iterations]_vars

====
